---- MODULE Spec2Model ----
(***************************************************************************)
(* ar_archive_writer: write_archive_to_stream (src/src/archive_writer.rs)  *)
(* as a state machine.  One call of write_archive_to_stream is one         *)
(* behaviour: Init fixes the arguments (kind, thin, is_ec, new_members),   *)
(* the actions are the consecutive phases of the function body, and `out`  *)
(* is everything written to the sink `w` so far.                           *)
(*                                                                         *)
(* Bytes are numbers 0..255; a header, a table or a name is a sequence of  *)
(* bytes.  A member's payload is a borrowed slice (&[u8]) that the writer  *)
(* never inspects: it is a record [src, len] naming the buffer of input    *)
(* member `src` and its first `len` bytes, and w.write_all(m.data) appends *)
(* that slice to `out` as one chunk.                                       *)
(*                                                                         *)
(* TLC's integers are 32 bits wide, so the three widths on which the code  *)
(* branches are scaled: OffsetBits stands for the 32 of u32 / 1 << 32,     *)
(* SizeDigits for the 10 digits of MAX_MEMBER_SIZE, IndexBits for the 16   *)
(* of the u16 member index.  The ten columns of a member header's size     *)
(* field are SizeDigits columns for digits and 10 - SizeDigits columns     *)
(* that are always blank, so that the field overflows exactly when the     *)
(* number exceeds MAX_MEMBER_SIZE, as the code's "{:<10}" does.            *)
(* Everything else (60-byte headers, 4- and 8-byte words, paddings) has    *)
(* the width the code gives it.                                            *)
(*                                                                         *)
(* Two further entry points share the variables.  SpecImport is one call   *)
(* of write_import_library (src/src/coff_import_file.rs): its actions      *)
(* build the member list export by export and end where the function       *)
(* calls write_archive_to_stream, recording the arguments of that call in  *)
(* archive_call.  SpecMangler applies the two functions of                 *)
(* src/src/mangler.rs to every name of at most MaxNameLen bytes.           *)
(***************************************************************************)
EXTENDS Integers, Sequences, FiniteSets, TLC

\* ------------------------------------------------------------------ bounds
OffsetBits == 16
SizeDigits == 5
IndexBits == 2

RECURSIVE Pow(_, _)
Pow(b, e) == IF e = 0 THEN 1 ELSE b * Pow(b, e - 1)

\* archive.rs:9 (ten digits there)
MAX_MEMBER_SIZE == Pow(10, SizeDigits) - 1
\* archive_writer.rs:896 (1 << 32 there)
SYM64_THRESHOLD == Pow(2, OffsetBits)
\* u32::MAX, the range of u32::try_from
U32_MAX == Pow(2, OffsetBits) - 1
\* u16::MAX, the range of index.try_into()
U16_MAX == Pow(2, IndexBits) - 1
\* archive_writer.rs:817 (0xfffe there)
COFF_MAX_MEMBERS == U16_MAX - 1

\* ------------------------------------------------------------ byte strings
Rep(b, n) == [i \in 1..n |-> b]
Spaces(n) == Rep(32, n)
Nuls(n) == Rep(0, n)

RECURSIVE Dec(_)
\* "{}" of an unsigned integer
Dec(n) == IF n < 10 THEN <<48 + n>> ELSE Dec(n \div 10) \o <<48 + (n % 10)>>

RECURSIVE Oct(_)
\* "{:o}" of an unsigned integer
Oct(n) == IF n < 8 THEN <<48 + n>> ELSE Oct(n \div 8) \o <<48 + (n % 8)>>

\* "{:<w}": left-aligned, space-filled to at least w bytes, never truncated
PadRight(s, w) == IF Len(s) >= w THEN s ELSE s \o Spaces(w - Len(s))

StartsWith(s, p) == Len(s) >= Len(p) /\ SubSeq(s, 1, Len(p)) = p
EndsWith(s, p) == Len(s) >= Len(p) /\ SubSeq(s, Len(s) - Len(p) + 1, Len(s)) = p
Contains(s, b) == \E i \in 1..Len(s) : s[i] = b

RECURSIVE LeBytes(_, _)
\* to_le_bytes of an n-byte unsigned integer
LeBytes(v, n) == IF n = 0 THEN <<>> ELSE <<v % 256>> \o LeBytes(v \div 256, n - 1)

RECURSIVE BeBytes(_, _)
\* to_be_bytes of an n-byte unsigned integer
BeBytes(v, n) == IF n = 0 THEN <<>> ELSE BeBytes(v \div 256, n - 1) \o <<v % 256>>

\* Option<u64>: None is <<>>, Some(v) is <<v>>.
NoValue == <<>>
Some(v) == <<v>>

\* ------------------------------------------------------------- alignment.rs
align_to(size, align) == ((size + align - 1) \div align) * align
offset_to_alignment(value, alignment) == align_to(value, alignment) - value

\* ------------------------------------------------------------ math_extras.rs
\* (value + align - 1) & (!align + 1), for align a power of two
align_to_power_of2(value, align) == ((value + align - 1) \div align) * align

\* ---------------------------------------------------------- archive kinds
Kinds == {"Gnu", "Gnu64", "Bsd", "Darwin", "Darwin64", "Coff", "AixBig"}

\* size_of::<big_archive::FixLenHdr>(): the magic and six 20-byte fields
FIX_LEN_HDR_SIZE == 128
\* size_of::<big_archive::BigArMemHdrType>(): the fields that
\* print_big_archive_member_header prints (three of 20 bytes, four of 12, one
\* of 4) and the two bytes of the terminator
BIG_AR_MEM_HDR_SIZE == 114

is_darwin(kind) == kind \in {"Darwin", "Darwin64"}
is_aix_big_archive(kind) == kind = "AixBig"
is_coff_archive(kind) == kind = "Coff"
is_bsd_like(kind) == kind \in {"Bsd", "Darwin", "Darwin64"}
is_64bit_kind(kind) == kind \in {"AixBig", "Darwin64", "Gnu64"}


\* -------------------------------------------------------- member headers
\* "{:<10}" of a size: ten bytes, or more when the number has more digits
\* than MAX_MEMBER_SIZE.
SizeField(size) == PadRight(Dec(size), SizeDigits) \o Spaces(10 - SizeDigits)

print_rest_of_member_header(mtime, uid, gid, perms, size) ==
    PadRight(Dec(mtime), 12) \o PadRight(Dec(uid % 1000000), 6)
        \o PadRight(Dec(gid % 1000000), 6) \o PadRight(Oct(perms), 8)
        \o SizeField(size) \o <<96, 10>>

print_gnu_small_member_header(name, mtime, uid, gid, perms, size) ==
    PadRight(name \o <<47>>, 16)
        \o print_rest_of_member_header(mtime, uid, gid, perms, size)

print_bsd_member_header(p, name, mtime, uid, gid, perms, size) ==
    LET pos_after_header == p + 60 + Len(name)
        pad == offset_to_alignment(pos_after_header, 8)
        name_with_padding == Len(name) + pad
    IN  <<35, 49, 47>> \o PadRight(Dec(name_with_padding), 13)
            \o print_rest_of_member_header(mtime, uid, gid, perms,
                                           name_with_padding + size)
            \o name \o Nuls(pad)

\* uid and gid are u32, so `u64::from(uid) % 1000000000000` is uid.
print_big_archive_member_header(name, mtime, uid, gid, perms, size, prev_offset, next_offset) ==
    PadRight(Dec(size), 20) \o PadRight(Dec(next_offset), 20)
        \o PadRight(Dec(prev_offset), 20) \o PadRight(Dec(mtime), 12)
        \o PadRight(Dec(uid), 12) \o PadRight(Dec(gid), 12)
        \o PadRight(Oct(perms), 12) \o PadRight(Dec(Len(name)), 4)
        \o (IF Len(name) # 0
            THEN name \o (IF Len(name) % 2 # 0 THEN <<0>> ELSE <<>>)
            ELSE <<>>)
        \o <<96, 10>>

use_string_table(is_thin, name) ==
    is_thin \/ Len(name) >= 16 \/ Contains(name, 47)

\* The entry a name gets in the member-name string table.
StringTableEntry(k, is_thin, name) ==
    IF is_thin \/ ~is_coff_archive(k) THEN name \o <<47, 10>> ELSE name \o <<0>>

\* Faulty variant of print_member_header: no lookup in member_names, every member
\* appends its name.
print_member_header_NoDedup(p, strtab, names, k, is_thin, m, mtime, size) ==
    IF is_bsd_like(k)
    THEN [header |-> print_bsd_member_header(p, m.name, mtime, m.uid, m.gid,
                                             m.perms, size),
          string_table |-> strtab, member_names |-> names]
    ELSE IF ~use_string_table(is_thin, m.name)
    THEN [header |-> print_gnu_small_member_header(m.name, mtime, m.uid, m.gid,
                                                   m.perms, size),
          string_table |-> strtab, member_names |-> names]
    ELSE [header |-> <<47>> \o PadRight(Dec(Len(strtab)), 15)
              \o print_rest_of_member_header(mtime, m.uid, m.gid, m.perms, size),
          string_table |-> strtab \o StringTableEntry(k, is_thin, m.name),
          member_names |-> names]

\* Returns the header and the string table and name map as they are left.
print_member_header(p, strtab, names, k, is_thin, m, mtime, size) ==
    IF is_bsd_like(k)
    THEN [header |-> print_bsd_member_header(p, m.name, mtime, m.uid, m.gid,
                                             m.perms, size),
          string_table |-> strtab, member_names |-> names]
    ELSE IF ~use_string_table(is_thin, m.name)
    THEN [header |-> print_gnu_small_member_header(m.name, mtime, m.uid, m.gid,
                                                   m.perms, size),
          string_table |-> strtab, member_names |-> names]
    ELSE LET reuse == ~is_thin /\ m.name \in DOMAIN names
             name_pos == IF reuse THEN names[m.name] ELSE Len(strtab)
         IN  [header |-> <<47>> \o PadRight(Dec(name_pos), 15)
                 \o print_rest_of_member_header(mtime, m.uid, m.gid, m.perms, size),
              string_table |-> IF reuse THEN strtab
                               ELSE strtab \o StringTableEntry(k, is_thin, m.name),
              member_names |-> IF is_thin \/ reuse THEN names
                               ELSE (m.name :> name_pos) @@ names]

\* ------------------------------------------------------ symbol collection
IMPORT_DESCRIPTOR_PREFIX ==
    <<95, 95, 73, 77, 80, 79, 82, 84, 95, 68, 69, 83, 67, 82, 73, 80, 84, 79, 82, 95>>
NULL_IMPORT_DESCRIPTOR_SYMBOL_NAME ==
    <<95, 95, 78, 85, 76, 76, 95, 73, 77, 80, 79, 82, 84, 95, 68, 69, 83, 67, 82,
      73, 80, 84, 79, 82>>
NULL_THUNK_DATA_PREFIX == <<127>>
NULL_THUNK_DATA_SUFFIX ==
    <<95, 78, 85, 76, 76, 95, 84, 72, 85, 78, 75, 95, 68, 65, 84, 65>>

is_import_descriptor(name) ==
    \/ StartsWith(name, IMPORT_DESCRIPTOR_PREFIX)
    \/ name = NULL_IMPORT_DESCRIPTOR_SYMBOL_NAME
    \/ (StartsWith(name, NULL_THUNK_DATA_PREFIX) /\ EndsWith(name, NULL_THUNK_DATA_SUFFIX))

\* The functions of a member's ObjectReader.  obj is the slice handed to
\* them: the member's whole buf, or the empty slice that stands for the data
\* of a thin archive's member, in which a reader finds no object.
get_symbols(m, obj) == IF obj.len = m.len THEN m.syms ELSE <<>>
\* get_symbols returns Err
get_symbols_fails(m, obj) == IF obj.len = m.len THEN m.sym_err ELSE m.empty_err
is_64_bit_object_file(m, obj) == IF obj.len = m.len THEN m.is64 ELSE FALSE
is_ec_object_file(m, obj) == IF obj.len = m.len THEN m.is_ec ELSE FALSE
\* The reader of member m asked for the alignment of the buf of member b.
get_xcoff_member_alignment(m, b) == b.xalign[m.reader]

EmptyMap == [x \in {} |-> 0]
EmptySymMap == [use_ec_map |-> FALSE, map |-> EmptyMap, ec_map |-> EmptyMap]

RECURSIVE WriteSymbolsFrom(_, _, _, _, _, _)
\* The closure handed to get_symbols, applied to syms[k..]; st is
\* [ret, sym_names, map, ec_map]; to_ec: the member's map is the EC map.
WriteSymbolsFrom(syms, k, st, idx, has_map, to_ec) ==
    IF k > Len(syms) THEN st
    ELSE LET name == syms[k]
             pushed == [st EXCEPT !.ret = Append(@, Len(st.sym_names)),
                                  !.sym_names = @ \o name \o <<0>>]
             next ==
                 IF ~has_map THEN pushed
                 ELSE IF to_ec
                 THEN IF name \in DOMAIN st.ec_map THEN st
                      ELSE [st EXCEPT !.ec_map = (name :> idx) @@ @]
                 ELSE IF name \in DOMAIN st.map THEN st
                      ELSE [pushed EXCEPT
                               !.map = (name :> idx) @@ @,
                               !.ec_map = IF is_import_descriptor(name)
                                          THEN (name :> idx) @@ @ ELSE @]
         IN  WriteSymbolsFrom(syms, k + 1, next, idx, has_map, to_ec)

\* Faulty variant of write_symbols: the map is not consulted.
write_symbols_WithoutMap(m, obj, idx, names, smap, has_map) ==
    WriteSymbolsFrom(get_symbols(m, obj), 1,
                     [ret |-> <<>>, sym_names |-> names,
                      map |-> smap.map, ec_map |-> smap.ec_map],
                     idx, FALSE, FALSE)

\* write_symbols(obj, index, sym_names, sym_map, object_reader): the symbol
\* offsets of the member and the stream and maps as they are left.
write_symbols(m, obj, idx, names, smap, has_map) ==
    WriteSymbolsFrom(get_symbols(m, obj), 1,
                     [ret |-> <<>>, sym_names |-> names,
                      map |-> smap.map, ec_map |-> smap.ec_map],
                     idx, has_map,
                     has_map /\ smap.use_ec_map /\ is_ec_object_file(m, obj))


\* ------------------------------------------------------ sizes and tables
\* compute_string_table: the `//` member as [header, data, padding].
compute_string_table(names) ==
    LET size == Len(names)
        pad == offset_to_alignment(size, 2)
    IN  [header |-> PadRight(<<47, 47>>, 48) \o PadRight(Dec(size + pad), 10)
                        \o <<96, 10>>,
         data |-> names,
         padding |-> IF pad # 0 THEN <<10>> ELSE <<>>]

\* Faulty variant of compute_symbol_table_size_and_pad: every variant pads
\* to a multiple of 2.
compute_symbol_table_size_and_pad_PadToTwo(k, nsyms, offset_size, strtab_size) ==
    LET table == IF is_bsd_like(k) THEN nsyms * offset_size * 2
                 ELSE nsyms * offset_size
        count == IF is_bsd_like(k) THEN offset_size ELSE 0
        size == offset_size + table + count + strtab_size
        pad == IF is_aix_big_archive(k) THEN 0 ELSE offset_to_alignment(size, 2)
    IN  [size |-> size + pad, pad |-> pad]

\* Returns [size, pad].
compute_symbol_table_size_and_pad(k, nsyms, offset_size, strtab_size) ==
    LET table == IF is_bsd_like(k) THEN nsyms * offset_size * 2
                 ELSE nsyms * offset_size
        count == IF is_bsd_like(k) THEN offset_size ELSE 0
        size == offset_size + table + count + strtab_size
        pad == IF is_aix_big_archive(k) THEN 0
               ELSE offset_to_alignment(size, IF is_bsd_like(k) THEN 8 ELSE 2)
    IN  [size |-> size + pad, pad |-> pad]

RECURSIVE KeyBytes(_)
\* The sum over the keys of a map of size_of::<u16>() + name.len() + 1.
KeyBytes(keys) ==
    IF keys = {} THEN 0
    ELSE LET n == CHOOSE x \in keys : TRUE
         IN  2 + Len(n) + 1 + KeyBytes(keys \ {n})

compute_symbol_map_size_and_pad(num_obj, smap) ==
    LET size == 4 * 2 + num_obj * 4 + KeyBytes(DOMAIN smap.map)
        pad == offset_to_alignment(size, 2)
    IN  [size |-> size + pad, pad |-> pad]

compute_ec_symbols_size_and_pad(smap) ==
    LET size == 4 + KeyBytes(DOMAIN smap.ec_map)
        pad == offset_to_alignment(size, 2)
    IN  [size |-> size + pad, pad |-> pad]

\* The header written at stream position p; now() is 0.
write_symbol_table_header(p, k, size, prev_member_offset, next_member_offset) ==
    IF is_bsd_like(k)
    THEN print_bsd_member_header(
             p, IF is_64bit_kind(k)
                THEN <<95, 95, 46, 83, 89, 77, 68, 69, 70, 95, 54, 52>>
                ELSE <<95, 95, 46, 83, 89, 77, 68, 69, 70>>,
             0, 0, 0, 0, size)
    ELSE IF is_aix_big_archive(k)
    THEN print_big_archive_member_header(<<>>, 0, 0, 0, 0, size,
                                         prev_member_offset, next_member_offset)
    ELSE print_gnu_small_member_header(
             IF is_64bit_kind(k) THEN <<47, 83, 89, 77, 54, 52>> ELSE <<>>,
             0, 0, 0, 0, size)

\* has_map: the sym_map argument is Some.
compute_headers_size(k, num_members, string_member_size, nsyms, sym_names_size, has_map, smap) ==
    LET offset_size == IF is_64bit_kind(k) THEN 8 ELSE 4
        symtab_size ==
            compute_symbol_table_size_and_pad(k, nsyms, offset_size, sym_names_size).size
        header_size == Len(write_symbol_table_header(0, k, symtab_size, 0, 0))
        size == 8 + header_size + symtab_size
        with_map == IF has_map
                    THEN header_size + compute_symbol_map_size_and_pad(num_members, smap).size
                    ELSE 0
        with_ec == IF has_map /\ DOMAIN smap.ec_map # {}
                   THEN header_size + compute_ec_symbols_size_and_pad(smap).size
                   ELSE 0
    IN  size + with_map + with_ec + string_member_size

\* ------------------------------------------------------------- the sink
\* A chunk of `out`: one write to w.  sec names the statement that wrote it
\* and mem the member it belongs to (0: none); a chunk is either literal
\* bytes or the slice [src, len] of an input buffer.
Lit(sec, mem, bytes) ==
    [sec |-> sec, mem |-> mem, bytes |-> bytes, src |-> 0, len |-> Len(bytes)]
Slice(sec, mem, d) ==
    [sec |-> sec, mem |-> mem, bytes |-> <<>>, src |-> d.src, len |-> d.len]

RECURSIVE ChunksLen(_, _)
\* The bytes in the first n chunks.
ChunksLen(chunks, n) ==
    IF n = 0 THEN 0 ELSE ChunksLen(chunks, n - 1) + chunks[n].len

\* w.stream_position()
StreamPosition(chunks) == ChunksLen(chunks, Len(chunks))

\* Lexicographic byte order, the order of a BTreeMap<Box<[u8]>, _>.
RECURSIVE LexLess(_, _)
LexLess(a, b) ==
    IF Len(b) = 0 THEN FALSE
    ELSE IF Len(a) = 0 THEN TRUE
    ELSE IF a[1] # b[1] THEN a[1] < b[1]
    ELSE LexLess(Tail(a), Tail(b))

RECURSIVE SortedKeys(_)
\* The keys of a BTreeMap in iteration order.
SortedKeys(keys) ==
    IF keys = {} THEN <<>>
    ELSE LET least == CHOOSE x \in keys : \A y \in keys \ {x} : LexLess(x, y)
         IN  <<least>> \o SortedKeys(keys \ {least})

RECURSIVE Flatten(_)
Flatten(ss) == IF Len(ss) = 0 THEN <<>> ELSE Head(ss) \o Flatten(Tail(ss))

\* print_n_bits: Some(bytes), or None where u32::try_from(val).unwrap() panics.
print_n_bits(k, val) ==
    IF is_64bit_kind(k)
    THEN Some(IF is_bsd_like(k) THEN LeBytes(val, 8) ELSE BeBytes(val, 8))
    ELSE IF val > U32_MAX THEN NoValue
    ELSE Some(IF is_bsd_like(k) THEN LeBytes(val, 4) ELSE BeBytes(val, 4))

\* ------------------------------------------------------------------ inputs
\* A NewArchiveMember: name, the length of buf, the metadata, and what the
\* member's object reader answers for buf (get_symbols' names in order,
\* whether get_symbols fails, whether it fails for the empty slice,
\* is_ec_object_file, is_64_bit_object_file), the
\* reader, and what each reader answers for buf as its XCOFF member
\* alignment.
Member(name, len, mtime, uid, syms, ec) ==
    [name |-> name, len |-> len, mtime |-> mtime, uid |-> uid, gid |-> 20,
     perms |-> 420, syms |-> syms, sym_err |-> FALSE, empty_err |-> FALSE,
     is_ec |-> ec,
     is64 |-> FALSE,
     reader |-> "ReaderA", xalign |-> [ReaderA |-> 2, ReaderB |-> 2]]

Name_a_o == <<97, 46, 111>>                                   \* "a.o"
Name_b_o == <<98, 46, 111>>                                   \* "b.o"
Name_slash == <<49, 47, 97, 46, 111>>                         \* "1/a.o"
Name_16 == <<115, 105, 120, 116, 101, 101, 110, 95, 99, 104, 97, 114, 115,
             49, 46, 111>>                                    \* "sixteen_chars1.o"
Sym_f == <<102>>                                              \* "f"
Sym_g == <<103>>                                              \* "g"

M_a1 == Member(Name_a_o, 3, 1000, 501, <<Sym_f, Sym_g>>, FALSE)
M_a2 == [Member(Name_a_o, 8, 2000, 1000501, <<Sym_f>>, TRUE) EXCEPT
             !.is64 = TRUE, !.reader = "ReaderB",
             !.xalign = [ReaderA |-> 4, ReaderB |-> 8]]
M_b == [Member(Name_b_o, 5, 3000, 0, <<>>, FALSE) EXCEPT
            !.xalign = [ReaderA |-> 8, ReaderB |-> 2]]
M_long == Member(Name_16, 0, 5, 0, <<>>, FALSE)
M_slash == Member(Name_slash, 10, 7, 0,
                  <<NULL_IMPORT_DESCRIPTOR_SYMBOL_NAME, Sym_f>>, FALSE)
M_big == Member(Name_b_o, SYM64_THRESHOLD, 0, 0, <<>>, FALSE)
M_edge == Member(Name_b_o, MAX_MEMBER_SIZE, 0, 0, <<Sym_g>>, FALSE)
M_toobig == Member(Name_b_o, MAX_MEMBER_SIZE + 1, 0, 0, <<>>, FALSE)
M_err == [Member(Name_b_o, 4, 0, 0, <<>>, FALSE) EXCEPT !.sym_err = TRUE]
\* perms 0o100000000, the least u32 with nine octal digits
M_perm == [Member(Name_b_o, 4, 0, 0, <<>>, FALSE) EXCEPT !.perms = 16777216]
\* an EC object that defines an import-descriptor symbol
M_ecd == Member(Name_b_o, 6, 0, 0, <<NULL_IMPORT_DESCRIPTOR_SYMBOL_NAME>>, TRUE)

\* a member without symbols whose reader fails for the empty slice
M_thinerr == [Member(Name_b_o, 4, 0, 0, <<>>, FALSE) EXCEPT !.empty_err = TRUE]

Templates ==
    {M_a1, M_a2, M_b, M_long, M_slash, M_big, M_edge, M_toobig, M_err, M_perm,
     M_ecd, M_thinerr}
SmallTemplates == {M_a1, M_a2}
MaxMembers == 4

\* Every list of at most two members, and the lists of up to MaxMembers
\* small members.
MemberLists ==
    {<<>>} \cup {<<a>> : a \in Templates}
        \cup {<<a, b>> : <<a, b>> \in Templates \X Templates}
        \cup UNION {[1..n -> SmallTemplates] : n \in 3..MaxMembers}

\* ------------------------------------------------------------------- state
VARIABLES
    new_members, req_kind, thin, is_ec,     \* the arguments
    kind,                                   \* `kind` as reassigned by the body
    pc,                                     \* where the body stands
    index, pos, string_table, member_names, \* compute_member_data's locals
    filename_count, sym_names, has_object,
    prev_offset, next_mem_head_pad_size,
    sym_map,
    data,                                   \* Vec<MemberData>
    string_table_size, num_syms,            \* write_archive_to_stream's locals
    num_syms32, last_member_end_offset,
    last_member_header_offset, maybe_headers_size, headers_size,
    member_table_name_str_tbl_size,         \* the locals of its AIX branch
    member_offsets, member_table_size, sym_names32, sym_names64,
    global_symbol_offset, global_symbol_offset64,
    out,                                    \* the chunks written to w
    written                                 \* members streamed so far

\* write_import_library (coff_import_file.rs) and the ARM64EC mangler
\* (mangler.rs) are entry points of their own; their calls are behaviours of
\* SpecImport and SpecMangler, which leave the variables above alone.
VARIABLES
    import_name, exports, machine, mingw,   \* write_import_library's arguments
    members,                                \* its Vec of members
    next_export,                            \* the export its loop stands at
    archive_call,                           \* its call of write_archive_to_stream
    mangler_name,                           \* the mangler's argument
    mangled, demangled                      \* and what it returned

importVars == <<import_name, exports, machine, mingw, members, next_export,
                archive_call>>
manglerVars == <<mangler_name, mangled, demangled>>
libVars == <<importVars, manglerVars>>

\* No call of write_import_library is under way.
ImportIdle ==
    /\ import_name = <<>> /\ exports = <<>> /\ machine = "AMD64"
    /\ mingw = FALSE /\ members = <<>> /\ next_export = 0
    /\ archive_call = NoValue
\* No call of the mangler is under way.
ManglerIdle == mangler_name = <<>> /\ mangled = NoValue /\ demangled = NoValue

argVars == <<new_members, req_kind, thin, is_ec>>
passVars == <<index, pos, string_table, member_names, filename_count,
              sym_names, has_object, prev_offset, next_mem_head_pad_size,
              sym_map, data>>
asmVars == <<string_table_size, num_syms, num_syms32, last_member_end_offset,
             last_member_header_offset, maybe_headers_size, headers_size>>
aixVars == <<member_table_name_str_tbl_size, member_offsets, member_table_size,
             sym_names32, sym_names64, global_symbol_offset,
             global_symbol_offset64>>
archiveVars == <<argVars, kind, passVars, asmVars, aixVars, out, written>>
vars == <<archiveVars, pc, libVars>>

\* The locals of write_archive_to_stream before its first statement.
ArchiveLocalsInit ==
    /\ index = 0 /\ pos = 0
    /\ string_table = <<>> /\ member_names = EmptyMap
    /\ filename_count = EmptyMap
    /\ sym_names = <<>> /\ has_object = FALSE
    /\ prev_offset = 0 /\ next_mem_head_pad_size = 0
    /\ sym_map = EmptySymMap
    /\ data = <<>>
    /\ string_table_size = 0 /\ num_syms = 0 /\ num_syms32 = 0
    /\ last_member_end_offset = 0 /\ last_member_header_offset = 0
    /\ maybe_headers_size = NoValue /\ headers_size = NoValue
    /\ member_table_name_str_tbl_size = 0 /\ member_offsets = <<>>
    /\ member_table_size = 0 /\ sym_names32 = <<>> /\ sym_names64 = <<>>
    /\ global_symbol_offset = 0 /\ global_symbol_offset64 = 0
    /\ out = <<>> /\ written = 0

\* No call of write_archive_to_stream is under way.
ArchiveIdle ==
    /\ new_members = <<>> /\ req_kind = "Gnu" /\ thin = FALSE /\ is_ec = FALSE
    /\ kind = req_kind
    /\ ArchiveLocalsInit

Init ==
    /\ new_members \in MemberLists
    /\ req_kind \in Kinds
    /\ thin \in BOOLEAN
    /\ is_ec \in BOOLEAN
    /\ kind = req_kind
    /\ pc = "start"
    /\ ArchiveLocalsInit
    /\ ImportIdle /\ ManglerIdle

\* -------------------------------------------------------- the member pass
Occurrences(name) == Cardinality({i \in 1..Len(new_members) : new_members[i].name = name})

\* Faulty variant of InitialFilenameCount: duplicated names start at 0 like the others.
InitialFilenameCount_FromZero(k) ==
    IF is_darwin(k)
    THEN [n \in {new_members[i].name : i \in 1..Len(new_members)} |-> 0]
    ELSE EmptyMap

\* filename_count after the two loops that precede the member loop.
InitialFilenameCount(k) ==
    IF is_darwin(k)
    THEN [n \in {new_members[i].name : i \in 1..Len(new_members)} |->
             IF Occurrences(n) > 1 THEN 1 ELSE 0]
    ELSE EmptyMap

\* write_archive_to_stream up to the call of compute_member_data, and
\* compute_member_data up to its member loop.
Start ==
    /\ pc = "start"
    /\ IF thin /\ is_bsd_like(kind)
       THEN /\ pc' = "panic"
            /\ UNCHANGED <<kind, passVars>>
       ELSE LET k == IF is_coff_archive(kind) /\ Len(new_members) > COFF_MAX_MEMBERS
                     THEN "Gnu" ELSE kind
            IN  /\ kind' = k
                /\ sym_map' = [sym_map EXCEPT !.use_ec_map = is_ec]
                /\ filename_count' = InitialFilenameCount(k)
                /\ pos' = IF is_aix_big_archive(k) THEN FIX_LEN_HDR_SIZE ELSE 0
                /\ pc' = "member_pass"
                /\ UNCHANGED <<index, string_table, member_names, sym_names,
                               has_object, prev_offset, next_mem_head_pad_size,
                               data>>
    /\ UNCHANGED <<libVars, argVars, asmVars, aixVars, out, written>>

\* Faulty variant of MemberMtime: a duplicated name keeps the input mtime.
MemberMtime_InputForDuplicates(k, m, counts) ==
    IF is_darwin(k) /\ Occurrences(m.name) = 1 THEN 0 ELSE m.mtime

\* Faulty variant of MemberMtime: a name that occurs once keeps the input mtime.
MemberMtime_KeepsUnique(k, m, counts) ==
    IF is_darwin(k) /\ counts[m.name] > 1 THEN counts[m.name] - 1 ELSE m.mtime

\* The mtime a member is given; counts is filename_count after the
\* member's own increment.
MemberMtime(k, m, counts) ==
    IF is_darwin(k) THEN counts[m.name] - 1 ELSE m.mtime

\* Faulty variant of MemberSize: the Darwin pad is left out.
MemberSize_WithoutPadding(buf_len, member_padding) == buf_len

\* `size`: what is held against MAX_MEMBER_SIZE and put in the header.
MemberSize(buf_len, member_padding) == buf_len + member_padding

\* Faulty variant of BigArchiveMember: next_offset leaves out the pad before
\* the next member's header.
BigArchiveMember_NextWithoutPad(i, size, mtime) ==
    LET m == new_members[i]
        offset_to_mem_data == pos + BIG_AR_MEM_HDR_SIZE + align_to(Len(m.name), 2)
        mem_head_pad_size ==
            IF i = 1
            THEN align_to_power_of2(offset_to_mem_data,
                                    get_xcoff_member_alignment(m, m))
                     - offset_to_mem_data
            ELSE next_mem_head_pad_size
        p == pos + mem_head_pad_size
        next_offset == p + BIG_AR_MEM_HDR_SIZE + align_to(Len(m.name), 2)
                           + align_to(size, 2)
        offset_to_next_mem_data ==
            next_offset + BIG_AR_MEM_HDR_SIZE
                + align_to(Len(new_members[i + 1].name), 2)
        next_pad ==
            IF i # Len(new_members)
            THEN align_to_power_of2(offset_to_next_mem_data,
                                    get_xcoff_member_alignment(m, new_members[i + 1]))
                     - offset_to_next_mem_data
            ELSE mem_head_pad_size
    IN  [mem_head_pad_size |-> mem_head_pad_size,
         next_mem_head_pad_size |-> next_pad,
         pos |-> p,
         header |-> print_big_archive_member_header(
                        m.name, mtime, m.uid, m.gid, m.perms, size, prev_offset,
                        next_offset)]

\* The AIX branch of the loop body: the pad before the member's header, the
\* pad before the next one's, and the header.
BigArchiveMember(i, size, mtime) ==
    LET m == new_members[i]
        offset_to_mem_data == pos + BIG_AR_MEM_HDR_SIZE + align_to(Len(m.name), 2)
        mem_head_pad_size ==
            IF i = 1
            THEN align_to_power_of2(offset_to_mem_data,
                                    get_xcoff_member_alignment(m, m))
                     - offset_to_mem_data
            ELSE next_mem_head_pad_size
        p == pos + mem_head_pad_size
        next_offset == p + BIG_AR_MEM_HDR_SIZE + align_to(Len(m.name), 2)
                           + align_to(size, 2)
        offset_to_next_mem_data ==
            next_offset + BIG_AR_MEM_HDR_SIZE
                + align_to(Len(new_members[i + 1].name), 2)
        next_pad ==
            IF i # Len(new_members)
            THEN align_to_power_of2(offset_to_next_mem_data,
                                    get_xcoff_member_alignment(m, new_members[i + 1]))
                     - offset_to_next_mem_data
            ELSE mem_head_pad_size
    IN  [mem_head_pad_size |-> mem_head_pad_size,
         next_mem_head_pad_size |-> next_pad,
         pos |-> p,
         header |-> print_big_archive_member_header(
                        m.name, mtime, m.uid, m.gid, m.perms, size, prev_offset,
                        IF i # Len(new_members) THEN next_offset + next_pad
                        ELSE next_offset)]

\* One iteration of compute_member_data's loop over new_members.
ComputeMemberData ==
    /\ pc = "member_pass"
    /\ index < Len(new_members)
    /\ LET i == index + 1
           m == new_members[i]
           buf == [src |-> i, len |-> m.len]
           data_len == IF thin THEN 0 ELSE m.len
           member_padding == IF is_darwin(kind)
                             THEN offset_to_alignment(data_len, 8) ELSE 0
           tail_padding == offset_to_alignment(data_len + member_padding, 2)
           padding == Rep(10, member_padding + tail_padding)
           counts == IF is_darwin(kind)
                     THEN [filename_count EXCEPT ![m.name] = @ + 1]
                     ELSE filename_count
           mtime == MemberMtime(kind, m, counts)
           size == MemberSize(m.len, member_padding)
           big == BigArchiveMember(i, size, mtime)
           h == IF is_aix_big_archive(kind)
                THEN [header |-> big.header, string_table |-> string_table,
                      member_names |-> member_names]
                ELSE print_member_header(pos, string_table, member_names, kind,
                                         thin, m, mtime, size)
           s == write_symbols(m, buf, i, sym_names, sym_map, is_coff_archive(kind))
       IN  /\ index' = i
           /\ filename_count' = counts
           /\ IF size > MAX_MEMBER_SIZE
              THEN /\ pc' = "err_too_big"
                   /\ UNCHANGED <<pos, string_table, member_names, sym_names,
                                  has_object, prev_offset, next_mem_head_pad_size,
                                  sym_map, data>>
              ELSE /\ string_table' = h.string_table
                   /\ member_names' = h.member_names
                   /\ IF is_aix_big_archive(kind)
                      THEN /\ next_mem_head_pad_size' = big.next_mem_head_pad_size
                           /\ prev_offset' = big.pos
                      ELSE UNCHANGED <<prev_offset, next_mem_head_pad_size>>
                   /\ IF i > U16_MAX
                      THEN /\ pc' = "panic"
                           /\ UNCHANGED <<pos, sym_names, has_object, sym_map, data>>
                      ELSE IF get_symbols_fails(m, buf)
                      THEN /\ pc' = "err_symbols"
                           /\ UNCHANGED <<pos, sym_names, has_object, sym_map, data>>
                      ELSE /\ pc' = "member_pass"
                           /\ sym_names' = s.sym_names
                           /\ sym_map' = [sym_map EXCEPT !.map = s.map,
                                                         !.ec_map = s.ec_map]
                           /\ has_object' = TRUE
                           /\ pos' = (IF is_aix_big_archive(kind) THEN big.pos ELSE pos)
                                         + Len(h.header) + data_len + Len(padding)
                           /\ data' = Append(data,
                                  [symbols |-> s.ret, header |-> h.header,
                                   data |-> [src |-> i, len |-> data_len],
                                   padding |-> padding,
                                   pre_head_pad_size |->
                                       IF is_aix_big_archive(kind)
                                       THEN big.mem_head_pad_size ELSE 0])
    /\ UNCHANGED <<libVars, argVars, kind, asmVars, aixVars, out, written>>

\* Faulty variant of FinalSymNames: no empty symbol table for an archive without symbols.
FinalSymNames_Unchanged(k, has_obj, names) == names

\* The symbol-name stream compute_member_data leaves: with the three NULs
\* of an empty symbol table if there are no symbols.
FinalSymNames(k, has_obj, names) ==
    IF has_obj /\ Len(names) = 0 /\ ~is_coff_archive(k)
    THEN <<0, 0, 0>> ELSE names

\* compute_member_data after its loop.
ComputeMemberDataReturn ==
    /\ pc = "member_pass"
    /\ index = Len(new_members)
    /\ sym_names' = FinalSymNames(kind, has_object, sym_names)
    /\ pc' = "layout"
    /\ UNCHANGED <<libVars, argVars, kind, index, pos, string_table, member_names,
                   filename_count, has_object, prev_offset,
                   next_mem_head_pad_size, sym_map, data, asmVars, aixVars, out,
                   written>>

MemberDataLen(md) == Len(md.header) + md.data.len + Len(md.padding)

RECURSIVE SumLens(_, _)
\* The bytes taken by the first n entries of a Vec<MemberData>.
SumLens(mds, n) ==
    IF n = 0 THEN 0
    ELSE SumLens(mds, n - 1) + mds[n].pre_head_pad_size + MemberDataLen(mds[n])

RECURSIVE CountSyms(_, _)
CountSyms(mds, n) ==
    IF n = 0 THEN 0 ELSE CountSyms(mds, n - 1) + Len(mds[n].symbols)

\* (m.object_reader.is_64_bit_object_file)(m.data) for a MemberData
Is64BitMemberData(md) == is_64_bit_object_file(new_members[md.data.src], md.data)

\* Faulty variant of CountSyms32: the symbols of all members are counted.
CountSyms32_AllMembers(mds, n) == CountSyms(mds, n)

RECURSIVE CountSyms32(_, _)
\* The symbols of the members that are not 64-bit object files.
CountSyms32(mds, n) ==
    IF n = 0 THEN 0
    ELSE CountSyms32(mds, n - 1)
             + (IF Is64BitMemberData(mds[n]) THEN 0 ELSE Len(mds[n].symbols))

\* write_archive_to_stream from the return of compute_member_data to the
\* end of the loop that sums up the members.
MeasureMembers ==
    /\ pc = "layout"
    /\ string_table_size' =
           IF Len(string_table) # 0 /\ ~is_aix_big_archive(kind)
           THEN LET t == compute_string_table(string_table)
                IN  Len(t.header) + Len(t.data) + Len(t.padding)
           ELSE 0
    /\ last_member_header_offset' =
           IF Len(data) = 0 THEN 0
           ELSE SumLens(data, Len(data) - 1) + data[Len(data)].pre_head_pad_size
    /\ last_member_end_offset' = SumLens(data, Len(data))
    /\ num_syms' = CountSyms(data, Len(data))
    /\ num_syms32' = IF is_aix_big_archive(kind)
                     THEN CountSyms32(data, Len(data)) ELSE 0
    /\ pc' = "sym64"
    /\ UNCHANGED <<libVars, argVars, kind, passVars, maybe_headers_size, headers_size,
                   aixVars, out, written>>

\* Faulty variant of Sym64Kind: only Darwin and GNU are switched.
Sym64Kind_OnlyDarwinAndGnu(k) ==
    IF k = "Darwin" THEN "Darwin64" ELSE IF k = "Gnu" THEN "Gnu64" ELSE k

\* The kind a 32-bit kind is switched to.
Sym64Kind(k) == IF k = "Darwin" THEN "Darwin64" ELSE "Gnu64"

\* Faulty variant of NeedsSym64: the members before the last are not counted.
NeedsSym64_HeadersOnly(hs, header_offset) == hs >= SYM64_THRESHOLD

\* maybe_headers_size.unwrap() + last_member_header_offset >= SYM64_THRESHOLD
NeedsSym64(hs, header_offset) == hs + header_offset >= SYM64_THRESHOLD

\* The check for the switch to a 64-bit symbol table.
DetectSym64 ==
    /\ pc = "sym64"
    /\ IF ~is_64bit_kind(kind)
       THEN LET hs == compute_headers_size(kind, Len(data), string_table_size,
                                           num_syms, Len(sym_names),
                                           is_coff_archive(kind), sym_map)
            IN  IF NeedsSym64(hs, last_member_header_offset)
                THEN /\ kind' = Sym64Kind(kind)
                     /\ maybe_headers_size' = NoValue
                ELSE /\ kind' = kind
                     /\ maybe_headers_size' = Some(hs)
       ELSE UNCHANGED <<kind, maybe_headers_size>>
    /\ pc' = "magic"
    /\ UNCHANGED <<libVars, argVars, passVars, string_table_size, num_syms, num_syms32,
                   last_member_end_offset, last_member_header_offset,
                   headers_size, aixVars, out, written>>

\* write!(w, "!<thin>\n"), write!(w, "<bigaf>\n") or write!(w, "!<arch>\n")
WriteMagic ==
    /\ pc = "magic"
    /\ out' = Append(out, Lit("magic", 0,
                 IF thin THEN <<33, 60, 116, 104, 105, 110, 62, 10>>
                 ELSE IF is_aix_big_archive(kind)
                 THEN <<60, 98, 105, 103, 97, 102, 62, 10>>
                 ELSE <<33, 60, 97, 114, 99, 104, 62, 10>>))
    /\ pc' = IF is_aix_big_archive(kind) THEN "aix_layout" ELSE "symtab"
    /\ UNCHANGED <<libVars, argVars, kind, passVars, asmVars, aixVars, written>>

\* The start of member i's header when the first member starts at
\* members_offset: `pos` in write_symbol_map's loop.
MemberPos(mds, members_offset, i) == members_offset + SumLens(mds, i - 1)

\* `pos` in write_symbol_table's loop where member i's symbols are written.
SymbolTablePos(k, mds, members_offset, i) ==
    MemberPos(mds, members_offset, i)
        + (IF is_aix_big_archive(k) THEN mds[i].pre_head_pad_size ELSE 0)

\* The values write_symbol_table hands to print_n_bits, in order.
SymbolTableWords(k, mds, strtab_len, members_offset, nsyms, is_64_bit) ==
    LET offset_size == IF is_64bit_kind(k) THEN 8 ELSE 4
        first == IF is_bsd_like(k) THEN nsyms * 2 * offset_size ELSE nsyms
        of_member(i) ==
            IF is_aix_big_archive(k) /\ Is64BitMemberData(mds[i]) # is_64_bit
            THEN <<>>
            ELSE Flatten([j \in 1..Len(mds[i].symbols) |->
                        IF is_bsd_like(k)
                        THEN <<mds[i].symbols[j],
                               SymbolTablePos(k, mds, members_offset, i)>>
                        ELSE <<SymbolTablePos(k, mds, members_offset, i)>>])
    IN  <<first>> \o Flatten([i \in 1..Len(mds) |-> of_member(i)])
            \o (IF is_bsd_like(k) THEN <<strtab_len>> ELSE <<>>)

\* The longest prefix of words that print_n_bits accepts, as bytes, and
\* whether that is all of them.
PrintWords(k, words) ==
    LET bad == {i \in 1..Len(words) : print_n_bits(k, words[i]) = NoValue}
        n == IF bad = {} THEN Len(words)
             ELSE (CHOOSE i \in bad : \A j \in bad : i <= j) - 1
    IN  [bytes |-> Flatten([i \in 1..n |-> print_n_bits(k, words[i])[1]]),
         complete |-> bad = {}]

\* write_symbol_table past its early return.
SymbolTableChunks(p, k, mds, strtab, members_offset, nsyms, prev_member_offset, next_member_offset, is_64_bit) ==
    LET offset_size == IF is_64bit_kind(k) THEN 8 ELSE 4
        sp == compute_symbol_table_size_and_pad(k, nsyms, offset_size, Len(strtab))
        header == write_symbol_table_header(p, k, sp.size, prev_member_offset,
                                            next_member_offset)
        w == PrintWords(k, SymbolTableWords(k, mds, Len(strtab), members_offset,
                                            nsyms, is_64_bit))
        sec == IF ~is_aix_big_archive(k) THEN "symtab"
               ELSE IF is_64_bit THEN "symtab64" ELSE "symtab32"
        hsec == IF ~is_aix_big_archive(k) THEN "symtab_header"
                ELSE IF is_64_bit THEN "symtab64_header" ELSE "symtab32_header"
    IN  [chunks |-> <<Lit(hsec, 0, header),
                      Lit(sec, 0,
                          IF w.complete THEN w.bytes \o strtab \o Nuls(sp.pad)
                          ELSE w.bytes)>>,
         complete |-> w.complete]

\* Faulty variant of write_symbol_table: a symbol table for every archive.
write_symbol_table_Always(p, k, mds, strtab, members_offset, nsyms, prev_member_offset, next_member_offset, is_64_bit) ==
    SymbolTableChunks(p, k, mds, strtab, members_offset, nsyms,
                      prev_member_offset, next_member_offset, is_64_bit)

\* write_symbol_table: the chunks it writes to a sink that stands at p, and
\* whether it returns (rather than panics).
write_symbol_table(p, k, mds, strtab, members_offset, nsyms, prev_member_offset, next_member_offset, is_64_bit) ==
    IF Len(strtab) = 0 /\ ~is_darwin(k) /\ ~is_coff_archive(k)
    THEN [chunks |-> <<>>, complete |-> TRUE]
    ELSE SymbolTableChunks(p, k, mds, strtab, members_offset, nsyms,
                           prev_member_offset, next_member_offset, is_64_bit)

\* The computation of headers_size and the call of write_symbol_table.
WriteSymbolTable ==
    /\ pc = "symtab"
    /\ LET hs == IF maybe_headers_size # NoValue THEN maybe_headers_size[1]
                 ELSE compute_headers_size(kind, Len(data), string_table_size,
                                           num_syms, Len(sym_names),
                                           is_coff_archive(kind), sym_map)
           t == write_symbol_table(StreamPosition(out), kind, data, sym_names,
                                   hs, num_syms, 0, 0, FALSE)
       IN  /\ headers_size' = Some(hs)
           /\ out' = out \o t.chunks
           /\ pc' = IF t.complete THEN "symmap" ELSE "panic"
    /\ UNCHANGED <<libVars, argVars, kind, passVars, string_table_size, num_syms,
                   num_syms32, last_member_end_offset, last_member_header_offset,
                   maybe_headers_size, aixVars, written>>

\* The values and keys of a map, as write_symbol_map and write_ec_symbols
\* write them.
MapBytes(map) ==
    LET keys == SortedKeys(DOMAIN map)
    IN  Flatten([i \in 1..Len(keys) |-> LeBytes(map[keys[i]], 2)])
            \o Flatten([i \in 1..Len(keys) |-> keys[i] \o <<0>>])

\* write_symbol_map: the chunks it writes, and whether it returns.
write_symbol_map(p, k, mds, smap, members_offset) ==
    LET sp == compute_symbol_map_size_and_pad(Len(mds), smap)
        header == write_symbol_table_header(p, k, sp.size, 0, 0)
        \* members whose `pos` cannot be advanced past them
        bad == {i \in 1..Len(mds) : MemberPos(mds, members_offset, i + 1) > U32_MAX}
        n == IF bad = {} THEN Len(mds) ELSE CHOOSE i \in bad : \A j \in bad : i <= j
        offsets == Flatten([i \in 1..n |-> LeBytes(MemberPos(mds, members_offset, i), 4)])
    IN  IF members_offset > U32_MAX
        THEN [chunks |-> <<Lit("symmap_header", 0, header)>>, complete |-> FALSE]
        ELSE IF bad # {}
        THEN [chunks |-> <<Lit("symmap_header", 0, header),
                           Lit("symmap", 0, LeBytes(Len(mds), 4) \o offsets)>>,
              complete |-> FALSE]
        ELSE [chunks |-> <<Lit("symmap_header", 0, header),
                           Lit("symmap", 0,
                               LeBytes(Len(mds), 4) \o offsets
                                   \o LeBytes(Cardinality(DOMAIN smap.map), 4)
                                   \o MapBytes(smap.map) \o Nuls(sp.pad))>>,
              complete |-> TRUE]

WriteSymbolMap ==
    /\ pc = "symmap"
    /\ IF is_coff_archive(kind)
       THEN LET t == write_symbol_map(StreamPosition(out), kind, data, sym_map,
                                      headers_size[1])
            IN  /\ out' = out \o t.chunks
                /\ pc' = IF t.complete THEN "strtab" ELSE "panic"
       ELSE /\ pc' = "strtab"
            /\ UNCHANGED out
    /\ UNCHANGED <<libVars, argVars, kind, passVars, asmVars, aixVars, written>>

\* The three writes of the `//` member.
WriteStringTable ==
    /\ pc = "strtab"
    /\ IF string_table_size > 0
       THEN LET t == compute_string_table(string_table)
            IN  out' = out \o <<Lit("strtab_header", 0, t.header),
                                Lit("strtab", 0, t.data),
                                Lit("strtab_padding", 0, t.padding)>>
       ELSE UNCHANGED out
    /\ pc' = "ecsym"
    /\ UNCHANGED <<libVars, argVars, kind, passVars, asmVars, aixVars, written>>

\* write_ec_symbols: the chunks of the /<ECSYMBOLS> member.
write_ec_symbols(smap) ==
    LET sp == compute_ec_symbols_size_and_pad(smap)
    IN  <<Lit("ecsym_header", 0,
              print_gnu_small_member_header(
                  <<47, 60, 69, 67, 83, 89, 77, 66, 79, 76, 83, 62>>,
                  0, 0, 0, 0, sp.size)),
          Lit("ecsym", 0,
              LeBytes(Cardinality(DOMAIN smap.ec_map), 4)
                  \o MapBytes(smap.ec_map) \o Nuls(sp.pad))>>

WriteEcSymbols ==
    /\ pc = "ecsym"
    /\ IF DOMAIN sym_map.ec_map # {}
       THEN out' = out \o write_ec_symbols(sym_map)
       ELSE UNCHANGED out
    /\ pc' = "members"
    /\ UNCHANGED <<libVars, argVars, kind, passVars, asmVars, aixVars, written>>

\* Faulty variant of MemberChunks: the padding is written before the data.
MemberChunks_PaddingFirst(i, md) ==
    <<Lit("member_header", i, md.header),
      Lit("member_padding", i, md.padding),
      Slice("member_data", i, md.data)>>

\* The chunks one iteration of the final loop writes for member i.
MemberChunks(i, md) ==
    <<Lit("member_header", i, md.header),
      Slice("member_data", i, md.data),
      Lit("member_padding", i, md.padding)>>

\* One iteration of `for m in data`.
WriteMember ==
    /\ pc = "members"
    /\ written < Len(data)
    /\ written' = written + 1
    /\ out' = out \o MemberChunks(written + 1, data[written + 1])
    /\ UNCHANGED <<libVars, argVars, kind, pc, passVars, asmVars, aixVars>>

\* ------------------------------------------------- the AIX big archive
RECURSIVE MemberEndOffset(_, _)
\* member_end_offset after n iterations of the loop that fills
\* member_offsets.
MemberEndOffset(mds, n) ==
    IF n = 0 THEN FIX_LEN_HDR_SIZE
    ELSE MemberEndOffset(mds, n - 1) + mds[n].pre_head_pad_size
             + BIG_AR_MEM_HDR_SIZE + align_to(mds[n].data.len, 2)
             + align_to(Len(new_members[n].name), 2)

RECURSIVE NameTableSize(_)
\* member_table_name_str_tbl_size after n iterations of that loop.
NameTableSize(n) ==
    IF n = 0 THEN 0 ELSE NameTableSize(n - 1) + Len(new_members[n].name) + 1

RECURSIVE SymNamesOf(_, _, _)
\* sym_names32 (is_64_bit FALSE) or sym_names64 (TRUE) after the loop that
\* calls write_symbols for the first n members.
SymNamesOf(mds, n, is_64_bit) ==
    IF n = 0 THEN <<>>
    ELSE LET before == SymNamesOf(mds, n - 1, is_64_bit)
         IN  IF Is64BitMemberData(mds[n]) = is_64_bit
             THEN write_symbols(new_members[mds[n].data.src], mds[n].data, 0,
                                before, EmptySymMap, FALSE).sym_names
             ELSE before

\* Faulty variant of SecondPassFails: the names are generated even when the
\* archive has no symbols.
SecondPassFails_WithoutSymbols ==
    \E i \in 1..Len(data) :
        get_symbols_fails(new_members[data[i].data.src], data[i].data)

\* The second call of write_symbols returns Err for one of the members.
SecondPassFails ==
    /\ num_syms > 0
    /\ \E i \in 1..Len(data) :
           get_symbols_fails(new_members[data[i].data.src], data[i].data)

\* The AIX branch up to the writing of the fixed header.
AixLayout ==
    /\ pc = "aix_layout"
    /\ IF SecondPassFails
       THEN /\ pc' = "err_symbols"
            /\ UNCHANGED <<last_member_end_offset, last_member_header_offset,
                           headers_size, aixVars>>
       ELSE
       LET n == Len(new_members)
           end_offset == last_member_end_offset + FIX_LEN_HDR_SIZE
           table_size == 20 + 20 * n + NameTableSize(n)
           names32 == IF num_syms > 0 THEN SymNamesOf(data, Len(data), FALSE)
                      ELSE <<>>
           names64 == IF num_syms > 0 THEN SymNamesOf(data, Len(data), TRUE)
                      ELSE <<>>
           member_table_end_offset ==
               end_offset + align_to(BIG_AR_MEM_HDR_SIZE + table_size, 2)
           gso == IF num_syms32 > 0 THEN member_table_end_offset ELSE 0
           num_syms64 == num_syms - num_syms32
           gso64 == IF num_syms64 > 0
                    THEN IF gso = 0 THEN member_table_end_offset
                         ELSE gso + BIG_AR_MEM_HDR_SIZE + (num_syms32 + 1) * 8
                                  + align_to(Len(names32), 2)
                    ELSE 0
       IN  /\ headers_size' = Some(FIX_LEN_HDR_SIZE)
           /\ last_member_end_offset' = end_offset
           /\ last_member_header_offset' =
                  last_member_header_offset + FIX_LEN_HDR_SIZE
           /\ member_table_name_str_tbl_size' = NameTableSize(n)
           /\ member_offsets' =
                  [i \in 1..n |-> MemberEndOffset(data, i - 1)
                                      + data[i].pre_head_pad_size]
           /\ member_table_size' = table_size
           /\ sym_names32' = names32
           /\ sym_names64' = names64
           /\ global_symbol_offset' = gso
           /\ global_symbol_offset64' = gso64
           /\ pc' = "aix_fixed_header"
    /\ UNCHANGED <<libVars, argVars, kind, passVars, string_table_size, num_syms,
                   num_syms32, maybe_headers_size, out, written>>

\* The six fields of the fixed-length header after the magic.
AixWriteFixedHeader ==
    /\ pc = "aix_fixed_header"
    /\ LET some == Len(new_members) # 0
       IN  out' = Append(out, Lit("fixed_header", 0,
                     PadRight(Dec(IF some THEN last_member_end_offset ELSE 0), 20)
                         \o PadRight(Dec(global_symbol_offset), 20)
                         \o PadRight(Dec(global_symbol_offset64), 20)
                         \o PadRight(Dec(IF some
                                         THEN FIX_LEN_HDR_SIZE
                                                  + data[1].pre_head_pad_size
                                         ELSE 0), 20)
                         \o PadRight(Dec(IF some THEN last_member_header_offset
                                         ELSE 0), 20)
                         \o PadRight(Dec(0), 20)))
    /\ pc' = "aix_members"
    /\ UNCHANGED <<libVars, argVars, kind, passVars, asmVars, aixVars, written>>

\* The chunks one iteration of the AIX member loop writes for member i.
BigArchiveMemberChunks(i, md) ==
    <<Lit("member_pre_head_pad", i, Nuls(md.pre_head_pad_size)),
      Lit("member_header", i, md.header),
      Slice("member_data", i, md.data)>>
        \o (IF md.data.len % 2 # 0 THEN <<Lit("member_padding", i, <<0>>)>>
            ELSE <<>>)

\* One iteration of `for m in &data` of the AIX branch.
AixWriteMember ==
    /\ pc = "aix_members"
    /\ written < Len(data)
    /\ written' = written + 1
    /\ out' = out \o BigArchiveMemberChunks(written + 1, data[written + 1])
    /\ UNCHANGED <<libVars, argVars, kind, pc, passVars, asmVars, aixVars>>

\* The member table: its header, the count, the offsets, the names and
\* the pad.
AixWriteMemberTable ==
    /\ pc = "aix_members"
    /\ written = Len(data)
    /\ IF Len(new_members) # 0
       THEN out' = out \o
                <<Lit("member_table_header", 0,
                      print_big_archive_member_header(
                          <<>>, 0, 0, 0, 0, member_table_size,
                          last_member_header_offset,
                          IF global_symbol_offset # 0 THEN global_symbol_offset
                          ELSE global_symbol_offset64)),
                  Lit("member_table", 0,
                      PadRight(Dec(Len(member_offsets)), 20)
                          \o Flatten([i \in 1..Len(member_offsets) |->
                                          PadRight(Dec(member_offsets[i]), 20)])
                          \o Flatten([i \in 1..Len(new_members) |->
                                          new_members[i].name \o <<0>>])
                          \o (IF member_table_name_str_tbl_size % 2 # 0
                              THEN <<0>> ELSE <<>>))>>
       ELSE UNCHANGED out
    /\ pc' = "aix_symtab32"
    /\ UNCHANGED <<libVars, argVars, kind, passVars, asmVars, aixVars, written>>

\* The global symbol table of the 32-bit members and the pad after it.
AixWriteSymbolTable32 ==
    /\ pc = "aix_symtab32"
    /\ IF Len(new_members) # 0 /\ global_symbol_offset # 0
       THEN LET t == write_symbol_table(
                         StreamPosition(out), kind, data, sym_names32,
                         headers_size[1], num_syms32, last_member_end_offset,
                         global_symbol_offset64, FALSE)
            IN  out' = out \o t.chunks
                    \o (IF global_symbol_offset64 # 0 /\ Len(sym_names32) % 2 # 0
                        THEN <<Lit("symtab32_padding", 0, <<0>>)>> ELSE <<>>)
       ELSE UNCHANGED out
    /\ pc' = "aix_symtab64"
    /\ UNCHANGED <<libVars, argVars, kind, passVars, asmVars, aixVars, written>>

\* The global symbol table of the 64-bit members.
AixWriteSymbolTable64 ==
    /\ pc = "aix_symtab64"
    /\ IF Len(new_members) # 0 /\ global_symbol_offset64 # 0
       THEN LET t == write_symbol_table(
                         StreamPosition(out), kind, data, sym_names64,
                         headers_size[1], num_syms - num_syms32,
                         IF global_symbol_offset # 0 THEN global_symbol_offset
                         ELSE last_member_end_offset,
                         0, TRUE)
            IN  out' = out \o t.chunks
       ELSE UNCHANGED out
    /\ pc' = "aix_flush"
    /\ UNCHANGED <<libVars, argVars, kind, passVars, asmVars, aixVars, written>>

\* w.flush() and the return of Ok(()), after either branch.
Flush ==
    /\ \/ pc = "members" /\ written = Len(data)
       \/ pc = "aix_flush"
    /\ pc' = "done"
    /\ UNCHANGED <<libVars, argVars, kind, passVars, asmVars, aixVars, out, written>>

Next ==
    \/ Start
    \/ ComputeMemberData
    \/ ComputeMemberDataReturn
    \/ MeasureMembers
    \/ DetectSym64
    \/ WriteMagic
    \/ WriteSymbolTable
    \/ WriteSymbolMap
    \/ WriteStringTable
    \/ WriteEcSymbols
    \/ WriteMember
    \/ AixLayout
    \/ AixWriteFixedHeader
    \/ AixWriteMember
    \/ AixWriteMemberTable
    \/ AixWriteSymbolTable32
    \/ AixWriteSymbolTable64
    \/ Flush

Spec == Init /\ [][Next]_vars

\* ------------------------------------------------------ reading the output
Terminated == pc \in {"done", "err_too_big", "err_symbols", "panic"}

\* The index in `out` of the chunk a statement wrote for a member (0: none).
ChunkOf(sec, mem) ==
    IF \E k \in 1..Len(out) : out[k].sec = sec /\ out[k].mem = mem
    THEN CHOOSE k \in 1..Len(out) : out[k].sec = sec /\ out[k].mem = mem
    ELSE 0
HasChunk(sec) == ChunkOf(sec, 0) # 0

\* The offset in the output of the first byte of chunk k.
ChunkStart(k) == ChunksLen(out, k - 1)

\* The offset in the output at which member i's header starts.
MemberHeaderStart(i) == ChunkStart(ChunkOf("member_header", i))

RECURSIVE LeVal(_)
\* from_le_bytes
LeVal(bs) == IF Len(bs) = 0 THEN 0 ELSE bs[1] + 256 * LeVal(Tail(bs))

RECURSIVE BeVal(_)
\* from_be_bytes
BeVal(bs) ==
    IF Len(bs) = 0 THEN 0 ELSE 256 * BeVal(SubSeq(bs, 1, Len(bs) - 1)) + bs[Len(bs)]

\* The k-th word (from 1) of a symbol table body written in kind kd.
TableWord(bytes, kd, k) ==
    LET os == IF is_64bit_kind(kd) THEN 8 ELSE 4
        w == SubSeq(bytes, (k - 1) * os + 1, k * os)
    IN  IF is_bsd_like(kd) THEN LeVal(w) ELSE BeVal(w)

\* For every entry of the primary symbol table, in the order the symbols were
\* collected, the member that supplied the symbol.
SymbolOwners == Flatten([i \in 1..Len(data) |-> [j \in 1..Len(data[i].symbols) |-> i]])

\* The member-offset word of the n-th entry of the primary symbol table.
SymtabMemberOffset(n) ==
    LET b == out[ChunkOf("symtab", 0)].bytes
    IN  IF is_bsd_like(kind) THEN TableWord(b, kind, 1 + 2 * n)
        ELSE TableWord(b, kind, 1 + n)

\* The i-th entry of the symbol map's member-offset table.
SymmapMemberOffset(i) ==
    LeVal(SubSeq(out[ChunkOf("symmap", 0)].bytes, 4 * i + 1, 4 * i + 4))

\* C1: when write_archive_to_stream completes, every member-offset word of
\* the primary symbol table, and every entry of the COFF symbol map's
\* member-offset table, is the output offset at which that member's header
\* starts.
C1_OffsetsPointAtHeaders ==
    (pc = "done" /\ ~is_aix_big_archive(kind)) =>
        /\ HasChunk("symtab") =>
               \A n \in 1..Len(SymbolOwners) :
                   SymtabMemberOffset(n) = MemberHeaderStart(SymbolOwners[n])
        /\ HasChunk("symmap") =>
               \A i \in 1..Len(data) : SymmapMemberOffset(i) = MemberHeaderStart(i)

RECURSIVE ParseDecFrom(_, _, _)
ParseDecFrom(bs, k, acc) ==
    IF k > Len(bs) \/ bs[k] \notin 48..57 THEN acc
    ELSE ParseDecFrom(bs, k + 1, acc * 10 + (bs[k] - 48))

\* The number a left-aligned decimal field holds.
ParseDec(field) == ParseDecFrom(field, 1, 0)

\* The header bytes written for member i.
EmittedHeader(i) == out[ChunkOf("member_header", i)].bytes
HeaderWritten(i) == ChunkOf("member_header", i) # 0

\* The mtime field (bytes 16..27) of the header written for member i.
EmittedMtime(i) == ParseDec(SubSeq(EmittedHeader(i), 17, 28))

\* How many members before member i have its name.
EarlierSameName(i) ==
    Cardinality({j \in 1..(i - 1) : new_members[j].name = new_members[i].name})

MembersWritten == {i \in 1..Len(new_members) : HeaderWritten(i)}

\* C2 as claimed: in a Darwin or Darwin64 archive the members that share a
\* name are written with the mtimes 0, 1, ..., K-1 in input order.
C2_DuplicatesCountFromZero ==
    is_darwin(kind) =>
        \A i \in MembersWritten :
            Occurrences(new_members[i].name) > 1 => EmittedMtime(i) = EarlierSameName(i)

\* C2 as amended: in a Darwin or Darwin64 archive the members that share a
\* name are written with the mtimes 1, 2, ..., K in input order, whatever
\* their input mtimes.
C2_DuplicatesCountFromOne ==
    is_darwin(kind) =>
        \A i \in MembersWritten :
            Occurrences(new_members[i].name) > 1
                => EmittedMtime(i) = EarlierSameName(i) + 1

\* Three members of one name and differing input mtimes have been written.
C2_Witness ==
    /\ pc = "done" /\ is_darwin(kind)
    /\ \E i, j \in MembersWritten :
           /\ i < j /\ new_members[i].name = new_members[j].name
           /\ new_members[i].mtime # new_members[j].mtime
           /\ Occurrences(new_members[i].name) = 3

\* C3 as claimed: in a Darwin or Darwin64 archive a member whose name occurs
\* once is written with the mtime of its NewArchiveMember.
C3_SingletonKeepsMtime ==
    is_darwin(kind) =>
        \A i \in MembersWritten :
            Occurrences(new_members[i].name) = 1
                => EmittedMtime(i) = new_members[i].mtime

\* C3 as amended: in a Darwin or Darwin64 archive a member whose name occurs
\* once is written with mtime 0, whatever mtime its NewArchiveMember has.
C3_SingletonGetsZero ==
    is_darwin(kind) =>
        \A i \in MembersWritten :
            Occurrences(new_members[i].name) = 1 => EmittedMtime(i) = 0

\* A member of a unique name and a non-zero input mtime has been written.
C3_Witness ==
    /\ pc = "done" /\ is_darwin(kind)
    /\ \E i \in MembersWritten :
           Occurrences(new_members[i].name) = 1 /\ new_members[i].mtime # 0

LastMember == Len(data)

\* The name of the symbol table member as written: the name field of a GNU
\* header up to its padding, the inline name of a BSD header.
SymtabNameWritten ==
    LET h == out[ChunkOf("symtab_header", 0)].bytes
    IN  IF SubSeq(h, 1, 3) = <<35, 49, 47>>
        THEN SelectSeq(SubSeq(h, 61, Len(h)), LAMBDA b : b # 0)
        ELSE SelectSeq(SubSeq(h, 1, 16), LAMBDA b : b # 32)

\* The name write_symbol_table_header gives the symbol table in each kind.
SymtabNameOf(k) ==
    CASE k = "Darwin64" -> <<95, 95, 46, 83, 89, 77, 68, 69, 70, 95, 54, 52>>
      [] k \in {"Bsd", "Darwin"} -> <<95, 95, 46, 83, 89, 77, 68, 69, 70>>
      [] k = "Gnu64" -> <<47, 83, 89, 77, 54, 52, 47>>
      [] OTHER -> <<47>>

\* The last member's header starts at or beyond the 32-bit limit.
LastHeaderBeyondLimit ==
    /\ pc = "done" /\ LastMember > 0
    /\ MemberHeaderStart(LastMember) >= SYM64_THRESHOLD

\* C4 as claimed: when the threshold is reached a Darwin request is written
\* as Darwin64 and a GNU request as GNU64, and every other request in the
\* requested variant.
C4_OthersKeepTheirKind ==
    LastHeaderBeyondLimit =>
        kind = CASE req_kind = "Darwin" -> "Darwin64"
                 [] req_kind = "Gnu" -> "Gnu64"
                 [] OTHER -> req_kind

\* C4 as amended: when the threshold is reached a Darwin request is written
\* as Darwin64, a GNU, BSD or COFF request as GNU64, and a request for a
\* 64-bit variant unchanged; the symbol table, if one is written, bears the
\* name of that variant.
C4_Sym64Kinds ==
    LastHeaderBeyondLimit =>
        /\ kind = CASE req_kind = "Darwin" -> "Darwin64"
                    [] req_kind \in {"Gnu", "Bsd", "Coff"} -> "Gnu64"
                    [] OTHER -> req_kind
        /\ HasChunk("symtab_header") => SymtabNameWritten = SymtabNameOf(kind)

\* A BSD request that reached the threshold has been written, with a
\* symbol table.
C4_Witness ==
    LastHeaderBeyondLimit /\ req_kind = "Bsd" /\ HasChunk("symtab_header")

\* C5: a COFF request of more than 0xFFFE members completes and is written
\* in GNU format (no symbol map, no /<ECSYMBOLS>); a COFF request of up to
\* 0xFFFE members that completes is written as COFF with every member index
\* of the symbol map below 2^16.
C5_CoffMemberLimit ==
    /\ (req_kind = "Coff" /\ Len(new_members) > COFF_MAX_MEMBERS) =>
           /\ pc \notin {"panic", "err_too_big"}
           /\ pc = "done" =>
                  /\ ~HasChunk("symmap") /\ ~HasChunk("ecsym")
                  /\ HasChunk("symtab_header") => SymtabNameWritten = <<47>>
    /\ (req_kind = "Coff" /\ Len(new_members) <= COFF_MAX_MEMBERS /\ pc = "done") =>
           /\ kind = "Coff"
           /\ \A n \in DOMAIN sym_map.map : sym_map.map[n] <= U16_MAX

\* The offsets in the member-name string table at which an entry for `name`
\* starts: the name and a terminator ("/\n", or NUL as COFF writes it), at
\* the start of the table or right after the terminator of another entry.
EntryOffsets(name) ==
    {p \in 0..(Len(string_table) - Len(name) - 1) :
        /\ SubSeq(string_table, p + 1, p + Len(name)) = name
        /\ \/ string_table[p + Len(name) + 1] = 0
           \/ SubSeq(string_table, p + Len(name) + 1, p + Len(name) + 2) = <<47, 10>>
        /\ p = 0 \/ string_table[p] \in {0, 10}}

\* The string table offset in the name field ("/<offset>") of a header.
NameOffsetOf(header) == ParseDec(SubSeq(header, 2, 16))

Least(S) == CHOOSE x \in S : \A y \in S : x <= y

\* The kinds that keep long names in the string table, during and after
\* the member pass (a panic or a failed object reader leaves the table of
\* an abandoned call).
UsesStringTable ==
    /\ pc \notin {"start", "panic", "err_symbols"}
    /\ req_kind \in {"Gnu", "Gnu64", "Coff"}

\* Names that are not routed to the string table never enter it.
ShortNamesStayOut ==
    \A i \in 1..Len(data) :
        ~use_string_table(thin, new_members[i].name)
            => EntryOffsets(new_members[i].name) = {}

\* C6 as claimed: in GNU, GNU64 and COFF, thin or not, after any number of
\* members every name routed to the string table occurs exactly once in it
\* and every member of that name has the offset of that occurrence in its
\* header; other names never enter the table.
C6_EveryNameOnce ==
    UsesStringTable =>
        /\ \A i \in 1..Len(data) :
               use_string_table(thin, new_members[i].name) =>
                   /\ Cardinality(EntryOffsets(new_members[i].name)) = 1
                   /\ NameOffsetOf(data[i].header)
                          \in EntryOffsets(new_members[i].name)
        /\ ShortNamesStayOut

\* The k-th smallest element (from 1) of a set of numbers.
RECURSIVE Nth(_, _)
Nth(S, k) == IF k = 1 THEN Least(S) ELSE Nth(S \ {Least(S)}, k - 1)

\* C6 as amended: in non-thin mode every name routed to the string table
\* (length >= 16 or containing '/') occurs exactly once in it and every
\* member of that name has the offset of that occurrence in its header; in
\* thin mode every member appends its own entry, so a name occurs once per
\* member that bears it, and each header has the offset of the member's own
\* entry; names not routed to the table never enter it.
C6_OncePerNameUnlessThin ==
    UsesStringTable =>
        /\ \A i \in 1..Len(data) :
               LET name == new_members[i].name
                   offs == EntryOffsets(name)
                   sofar == Cardinality({j \in 1..Len(data) : new_members[j].name = name})
               IN  use_string_table(thin, name) =>
                       IF thin
                       THEN /\ Cardinality(offs) = sofar
                            /\ NameOffsetOf(data[i].header)
                                   = Nth(offs, EarlierSameName(i) + 1)
                       ELSE /\ Cardinality(offs) = 1
                            /\ NameOffsetOf(data[i].header) = Least(offs)
        /\ ShortNamesStayOut

\* Two members of one name have been processed in thin mode.
C6_Witness ==
    /\ UsesStringTable /\ thin /\ pc = "done"
    /\ \E i, j \in 1..Len(data) : i < j /\ new_members[i].name = new_members[j].name

\* The pad that brings a Darwin member's payload to a multiple of 8.
DarwinPad(i) ==
    IF is_darwin(req_kind) THEN offset_to_alignment(new_members[i].len, 8) ELSE 0

Returned == pc \in {"done", "err_too_big", "err_symbols"}

\* C7 as claimed: the write fails with the 'too big' error only when some
\* member's payload is longer than MAX_MEMBER_SIZE (a member of at most
\* that length is accepted in every variant), and a longer one always
\* aborts the write.
C7_TooBigIffPayloadOverMax ==
    LET long == \E i \in 1..Len(new_members) : new_members[i].len > MAX_MEMBER_SIZE
    IN  /\ pc = "err_too_big" => long
        /\ long => pc # "done"

\* The payload of member i with the pad that brings it to a multiple of 8 in
\* Darwin and Darwin64 (no pad in the other variants) exceeds
\* MAX_MEMBER_SIZE.
OverMax(i) == new_members[i].len + DarwinPad(i) > MAX_MEMBER_SIZE

\* C7 as amended: the 'too big' error is returned only for a member whose
\* padded payload exceeds MAX_MEMBER_SIZE, the first such member; a write
\* with such a member never completes and writes nothing; and when it
\* returns, it returns that error unless the object reader of a member
\* before the first such member has failed.
C7_TooBigIffPaddedOverMax ==
    LET over == {i \in 1..Len(new_members) : OverMax(i)}
    IN  /\ pc = "err_too_big" =>
               /\ index \in over
               /\ \A j \in over : index <= j
        /\ over # {} => pc # "done" /\ out = <<>>
        /\ (Returned /\ over # {}
                /\ \A j \in 1..Len(new_members) :
                       (\A i \in over : j < i) => ~new_members[j].sym_err)
               => pc = "err_too_big"

\* A Darwin write has failed although no payload is longer than the maximum.
C7_Witness ==
    /\ pc = "err_too_big" /\ is_darwin(req_kind)
    /\ \A i \in 1..Len(new_members) : new_members[i].len <= MAX_MEMBER_SIZE

NoSymbols == \A i \in 1..Len(new_members) : new_members[i].syms = <<>>

\* A completed non-thin GNU archive of at least one member and no symbols.
GnuWithoutSymbols ==
    /\ pc = "done" /\ kind = "Gnu" /\ ~thin
    /\ Len(new_members) > 0 /\ NoSymbols

\* C8 as claimed: a non-thin GNU archive whose members yield no symbols has
\* no symbol table member; the first header follows the magic.
C8_NoSymbolTable ==
    GnuWithoutSymbols =>
        /\ ~HasChunk("symtab_header") /\ ~HasChunk("symtab")
        /\ MemberHeaderStart(1) = 8

\* C8 as amended: a non-thin GNU archive of at least one member whose
\* members yield no symbols has a symbol table member of no entries: after
\* the magic a 60-byte header with size 8, then the count 0, the three NULs
\* and one pad byte; the first member's header follows at offset 76 (after
\* the `//` member, if there is one).
C8_EmptySymbolTable ==
    GnuWithoutSymbols =>
        /\ out[2].sec = "symtab_header" /\ out[2].len = 60
        /\ SubSeq(out[2].bytes, 1, 16) = PadRight(<<47>>, 16)
        /\ ParseDec(SubSeq(out[2].bytes, 49, 58)) = 8
        /\ out[3].sec = "symtab" /\ out[3].bytes = Nuls(8)
        /\ MemberHeaderStart(1) = 76 + string_table_size

\* Two members without symbols have been written to a non-thin GNU archive
\* that has no `//` member.
C8_Witness ==
    GnuWithoutSymbols /\ Len(new_members) = 2 /\ string_table_size = 0

Magic == <<33, 60, 97, 114, 99, 104, 62, 10>>
ThinMagic == <<33, 60, 116, 104, 105, 110, 62, 10>>

\* The bytes of all chunks of `out` that are literal.
OutBytes == Flatten([k \in 1..Len(out) |-> out[k].bytes])

\* C9: for an empty member list the output is the magic alone for GNU, GNU64
\* and BSD; the magic and a symbol table of no entries for Darwin and
\* Darwin64; the magic, a symbol table of no entries and a symbol map of no
\* members and no symbols for COFF; never a `//` or /<ECSYMBOLS> member.
C9_EmptyArchive ==
    (pc = "done" /\ Len(new_members) = 0) =>
        LET magic == IF thin THEN ThinMagic ELSE Magic
            symtab(name, n) ==
                PadRight(name, 16) \o PadRight(<<48>>, 12) \o PadRight(<<48>>, 6)
                    \o PadRight(<<48>>, 6) \o PadRight(<<48>>, 8)
                    \o PadRight(Dec(n), 10) \o <<96, 10>>
            symdef == <<95, 95, 46, 83, 89, 77, 68, 69, 70>>
        IN  /\ req_kind # "AixBig" => OutBytes =
                  CASE req_kind \in {"Gnu", "Gnu64", "Bsd"} -> magic
                    [] req_kind = "Darwin" ->
                           magic \o symtab(<<35, 49, 47, 49, 50>>, 12 + 8)
                               \o symdef \o Nuls(3) \o Nuls(8)
                    [] req_kind = "Darwin64" ->
                           magic \o symtab(<<35, 49, 47, 49, 50>>, 12 + 16)
                               \o symdef \o <<95, 54, 52>> \o Nuls(16)
                    [] req_kind = "Coff" ->
                           magic \o symtab(<<47>>, 4) \o Nuls(4)
                               \o symtab(<<47>>, 8) \o Nuls(8)
            /\ \A k \in 1..Len(out) : out[k].src = 0
            /\ ~HasChunk("strtab_header") /\ ~HasChunk("ecsym_header")

\* An empty COFF archive has been written.
C9_Witness ==
    pc = "done" /\ Len(new_members) = 0 /\ req_kind = "Coff" /\ HasChunk("symmap")

\* What a reader of the archive takes from the header written for member i:
\* the fixed part of the header ends 60 bytes after its start (AIX: after
\* the eight fields, the name of the length the header gives, padded to
\* even, and the terminator).
ReadInlineNameLen(i) ==
    LET h == EmittedHeader(i)
    IN  IF ~is_aix_big_archive(kind) /\ StartsWith(h, <<35, 49, 47>>)
        THEN ParseDec(SubSeq(h, 4, 16)) ELSE 0

\* The number in the digit columns of the size field.
ReadSize(i) ==
    LET h == EmittedHeader(i)
    IN  IF is_aix_big_archive(kind) THEN ParseDec(SubSeq(h, 1, 20))
        ELSE ParseDec(SubSeq(h, 49, 48 + SizeDigits))

\* The offset at which the reader finds the first byte of the payload.
ReadPayloadStart(i) ==
    LET h == EmittedHeader(i)
    IN  IF is_aix_big_archive(kind)
        THEN MemberHeaderStart(i) + 112
                 + align_to(ParseDec(SubSeq(h, 109, 112)), 2) + 2
        ELSE MemberHeaderStart(i) + 60 + ReadInlineNameLen(i)

\* The header of member i is well-formed where the reader looks: the
\* terminator closes the fixed part, and a BSD-like header carries the name
\* and NULs in the bytes its "#1/" field counts.
ReadHeaderWellFormed(i) ==
    LET h == EmittedHeader(i)
        name == new_members[i].name
    IN  IF is_aix_big_archive(kind)
        THEN EndsWith(h, <<96, 10>>)
        ELSE /\ Len(h) >= 60 /\ SubSeq(h, 59, 60) = <<96, 10>>
             /\ is_bsd_like(kind) =>
                    /\ StartsWith(h, <<35, 49, 47>>)
                    /\ Len(h) = 60 + ReadInlineNameLen(i)
                    /\ ReadInlineNameLen(i) >= Len(name)
                    /\ SubSeq(h, 61, Len(h)) =
                           name \o Nuls(ReadInlineNameLen(i) - Len(name))

\* Member i as it lies in the output: the header, then the whole input
\* payload where the reader looks for it, then (Darwin) the newlines that
\* bring the payload to a multiple of 8; the size field counts the payload,
\* those newlines and the inline name.
MemberReadsBack(i) ==
    LET hc == ChunkOf("member_header", i)
        len == new_members[i].len
    IN  /\ hc # 0 /\ hc + 1 <= Len(out)
        /\ out[hc + 1] = Slice("member_data", i, [src |-> i, len |-> len])
        /\ ReadHeaderWellFormed(i)
        /\ ReadPayloadStart(i) = ChunkStart(hc + 1)
        /\ ReadSize(i) = len + DarwinPad(i) + ReadInlineNameLen(i)
        /\ DarwinPad(i) > 0 =>
               /\ hc + 2 <= Len(out)
               /\ StartsWith(out[hc + 2].bytes, Rep(10, DarwinPad(i)))

\* C10: in a completed non-thin archive of any variant the members lie in
\* input order, each header is followed by exactly the member's input
\* payload, and the header's size field is the length of the payload (plus
\* the Darwin pad and the inline name of the BSD-like variants), so that a
\* reader finds every member's payload.
C10_PayloadsReadBack ==
    (pc = "done" /\ ~thin) =>
        /\ \A i \in 1..Len(new_members) : MemberReadsBack(i)
        /\ \A i \in 1..(Len(new_members) - 1) :
               ChunkOf("member_header", i) < ChunkOf("member_header", i + 1)
        /\ Cardinality({k \in 1..Len(out) : out[k].src # 0}) = Len(new_members)

\* ------------------------------------------------------------------ C11
\* The bytes after the 60-byte fixed part of member i's header are exactly
\* what the header style allows: nothing, or (BSD, Darwin, Darwin64) the name
\* and fewer than eight NULs.
InlineNameFollows(i) ==
    LET h == EmittedHeader(i)
        name == new_members[i].name
    IN  IF is_bsd_like(req_kind)
        THEN /\ Len(h) >= 60 + Len(name)
             /\ Len(h) < 60 + Len(name) + 8
             /\ SubSeq(h, 61, Len(h)) = name \o Nuls(Len(h) - 60 - Len(name))
        ELSE Len(h) = 60

\* The fields of the fixed part of member i's header stand in their columns:
\* name 1..16, mtime 17..28, uid 29..34, gid 35..40, perms 41..48, size
\* 49..58, terminator 59..60.
FieldsKeepWidth(i) ==
    LET h == EmittedHeader(i)
        m == new_members[i]
    IN  /\ Len(h) >= 60
        /\ SubSeq(h, 17, 28) = PadRight(Dec(EmittedMtime(i)), 12)
        /\ SubSeq(h, 29, 34) = PadRight(Dec(m.uid % 1000000), 6)
        /\ SubSeq(h, 35, 40) = PadRight(Dec(m.gid % 1000000), 6)
        /\ SubSeq(h, 41, 48) = PadRight(Oct(m.perms), 8)
        /\ \A c \in 49..58 : h[c] = 32 \/ h[c] \in 48..57
        /\ SubSeq(h, 59, 60) = <<96, 10>>

\* C11 as claimed: every member header written for a non-AIX archive is 60
\* bytes long (followed, in the BSD-like variants, by the inline name and
\* its NUL pad), and every field keeps its width, whatever the metadata of
\* a member that has passed the size check.
C11_HeadersAreSixtyBytes ==
    ~is_aix_big_archive(req_kind) =>
        \A i \in 1..Len(new_members) :
            HeaderWritten(i) => InlineNameFollows(i) /\ FieldsKeepWidth(i)

\* ================================================================ mangler.rs
\* str::find / the split point of str::split_once: the byte offset of the
\* first occurrence of pat in s, or None.
Find(s, pat) ==
    LET at == {i \in 0..(Len(s) - Len(pat)) : SubSeq(s, i + 1, i + Len(pat)) = pat}
    IN  IF at = {} THEN NoValue
        ELSE Some(CHOOSE i \in at : \A j \in at : i <= j)

CH_HASH == 35
CH_DOLLAR == 36
CH_QUESTION == 63
CH_AT == 64
CH_UNDERSCORE == 95
CH_h == 104
ARM64EC_TAG == <<CH_DOLLAR, CH_DOLLAR, CH_h>>                      \* "$$h"

\* name.chars().next().unwrap() panics
FirstCharPanics(name) == name = <<>>

\* Faulty variant of get_arm64ec_mangled_function_name: the tag always goes
\* after the first '@'.
get_arm64ec_mangled_function_name_AfterFirstAt(name) ==
    LET is_cpp_fn == name[1] = CH_QUESTION
        at == Find(name, <<CH_AT>>)
        insert_idx == IF ~is_cpp_fn THEN 0
                      ELSE IF at = NoValue THEN Len(name) ELSE at[1] + 1
    IN  IF is_cpp_fn /\ Find(name, ARM64EC_TAG) # NoValue THEN NoValue
        ELSE IF ~is_cpp_fn /\ name[1] = CH_HASH THEN NoValue
        ELSE Some(SubSeq(name, 1, insert_idx)
                      \o (IF is_cpp_fn THEN ARM64EC_TAG ELSE <<CH_HASH>>)
                      \o SubSeq(name, insert_idx + 1, Len(name)))

\* get_arm64ec_mangled_function_name of a non-empty name
get_arm64ec_mangled_function_name(name) ==
    LET first_char == name[1]
        is_cpp_fn == first_char = CH_QUESTION
        two_at_signs_idx == Find(name, <<CH_AT, CH_AT>>)
        at == Find(name, <<CH_AT>>)
        insert_idx ==
            IF is_cpp_fn
            THEN IF /\ two_at_signs_idx # NoValue
                    /\ two_at_signs_idx # Find(name, <<CH_AT, CH_AT, CH_AT>>)
                 THEN two_at_signs_idx[1] + 2
                 ELSE IF at = NoValue THEN Len(name) ELSE at[1] + 1
            ELSE 0
        prefix == IF is_cpp_fn THEN ARM64EC_TAG ELSE <<CH_HASH>>
    IN  IF is_cpp_fn /\ Find(name, ARM64EC_TAG) # NoValue THEN NoValue
        ELSE IF ~is_cpp_fn /\ first_char = CH_HASH THEN NoValue
        ELSE Some(SubSeq(name, 1, insert_idx) \o prefix
                      \o SubSeq(name, insert_idx + 1, Len(name)))

\* Faulty variant of get_arm64ec_demangled_function_name: only the "$$" of
\* the tag is taken out.
get_arm64ec_demangled_function_name_KeepsH(name) ==
    LET at == Find(name, ARM64EC_TAG)
    IN  IF name[1] = CH_HASH THEN Some(Tail(name))
        ELSE IF name[1] # CH_QUESTION THEN NoValue
        ELSE IF at # NoValue /\ at[1] + 3 < Len(name)
        THEN Some(SubSeq(name, 1, at[1]) \o SubSeq(name, at[1] + 3, Len(name)))
        ELSE NoValue

\* get_arm64ec_demangled_function_name of a non-empty name
get_arm64ec_demangled_function_name(name) ==
    LET at == Find(name, ARM64EC_TAG)
    IN  IF name[1] = CH_HASH THEN Some(Tail(name))
        ELSE IF name[1] # CH_QUESTION THEN NoValue
        ELSE IF at # NoValue /\ at[1] + 3 < Len(name)
        THEN Some(SubSeq(name, 1, at[1]) \o SubSeq(name, at[1] + 4, Len(name)))
        ELSE NoValue

\* ==================================================================== coff.rs
Machines == {"AMD64", "ARMNT", "ARM64", "ARM64EC", "ARM64X", "I386"}
is_arm64ec(m) == m = "ARM64EC" \/ m = "ARM64X"
is_any_arm64(m) == m = "ARM64" \/ is_arm64ec(m)
is_64_bit(m) == m = "AMD64" \/ is_any_arm64(m)

ImportType_Code == 0
ImportType_Data == 1
ImportType_Const == 2

ImportNameType_Ordinal == 0
ImportNameType_Name == 1
ImportNameType_NameNoprefix == 2
ImportNameType_NameUndecorate == 3
ImportNameType_NameExportas == 4

\* ======================================================= coff_import_file.rs
\* Faulty variant of get_name_type: the decorated-stdcall test looks at the
\* symbol instead of the export's name.
get_name_type_TestsSym(sym, ext_name, m, is_mingw) ==
    IF StartsWith(sym, <<CH_UNDERSCORE>>) /\ Contains(sym, CH_AT) /\ ~is_mingw
    THEN ImportNameType_Name
    ELSE IF sym # ext_name THEN ImportNameType_NameUndecorate
    ELSE IF m = "I386" /\ StartsWith(sym, <<CH_UNDERSCORE>>)
    THEN ImportNameType_NameNoprefix
    ELSE ImportNameType_Name

get_name_type(sym, ext_name, m, is_mingw) ==
    IF StartsWith(ext_name, <<CH_UNDERSCORE>>) /\ Contains(ext_name, CH_AT) /\ ~is_mingw
    THEN ImportNameType_Name
    ELSE IF sym # ext_name THEN ImportNameType_NameUndecorate
    ELSE IF m = "I386" /\ StartsWith(sym, <<CH_UNDERSCORE>>)
    THEN ImportNameType_NameNoprefix
    ELSE ImportNameType_Name

\* s.split_once(from) put together again around `to`; None: no occurrence
SplitOnceReplace(s, from, to) ==
    LET at == Find(s, from)
    IN  IF at = NoValue THEN NoValue
        ELSE Some(SubSeq(s, 1, at[1]) \o to
                      \o SubSeq(s, at[1] + Len(from) + 1, Len(s)))

\* Faulty variant of replace: no second attempt without the underscores.
replace_NoRetry(s, from, to) == SplitOnceReplace(s, from, to)

\* replace: Some(string) for Ok, None for Err
replace(s, from, to) ==
    IF SplitOnceReplace(s, from, to) # NoValue THEN SplitOnceReplace(s, from, to)
    ELSE IF StartsWith(from, <<CH_UNDERSCORE>>) /\ StartsWith(to, <<CH_UNDERSCORE>>)
    THEN SplitOnceReplace(s, Tail(from), Tail(to))
    ELSE NoValue

\* Path::file_stem of a path without directories: the name up to its last
\* '.', a leading '.' not counting; None for the empty path.
FileStem(s) ==
    LET dots == {i \in 2..Len(s) : s[i] = 46}
    IN  IF s = <<>> THEN NoValue
        ELSE IF dots = {} THEN Some(s)
        ELSE Some(SubSeq(s, 1, (CHOOSE i \in dots : \A j \in dots : j <= i) - 1))

\* ObjectFactory::new: Some(factory) for Ok, None for Err
ObjectFactory_new(s, m) ==
    IF FileStem(s) = NoValue THEN NoValue
    ELSE Some([native_machine |-> m, import_name |-> s,
               import_descriptor_symbol_name |->
                   IMPORT_DESCRIPTOR_PREFIX \o FileStem(s)[1],
               null_thunk_symbol_name |->
                   NULL_THUNK_DATA_PREFIX \o FileStem(s)[1]
                       \o NULL_THUNK_DATA_SUFFIX])

\* The members the factory creates, as far as the assembler and the claims
\* look at them: which object it is, the member name, the object reader, the
\* machine in the object's header, and the NUL-terminated strings of its
\* string table (for a short import: of its data).
create_import_descriptor(of) ==
    [object |-> "import_descriptor", name |-> of.import_name,
     reader |-> "DEFAULT_OBJECT_READER", machine |-> of.native_machine,
     strings |-> <<of.import_descriptor_symbol_name,
                   NULL_IMPORT_DESCRIPTOR_SYMBOL_NAME,
                   of.null_thunk_symbol_name>>]

create_null_import_descriptor(of) ==
    [object |-> "null_import_descriptor", name |-> of.import_name,
     reader |-> "DEFAULT_OBJECT_READER", machine |-> of.native_machine,
     strings |-> <<NULL_IMPORT_DESCRIPTOR_SYMBOL_NAME>>]

create_null_thunk(of) ==
    [object |-> "null_thunk", name |-> of.import_name,
     reader |-> "DEFAULT_OBJECT_READER", machine |-> of.native_machine,
     strings |-> <<of.null_thunk_symbol_name>>]

IMP_PREFIX == <<95, 95, 105, 109, 112, 95>>                        \* "__imp_"

create_weak_external(of, sym, weak, imp, m) ==
    LET prefix == IF imp THEN IMP_PREFIX ELSE <<>>
    IN  [object |-> "weak_external", name |-> of.import_name,
         reader |-> "DEFAULT_OBJECT_READER", machine |-> m,
         strings |-> <<prefix \o sym, prefix \o weak>>]

\* The ImportObjectHeader and the strings after it.
create_short_import(of, sym, ordinal, import_type, name_type, export_name, m) ==
    LET imp_size == Len(of.import_name) + Len(sym) + 2
                        + (IF export_name # NoValue THEN Len(export_name[1]) + 1 ELSE 0)
    IN  [object |-> "short_import", name |-> of.import_name,
         reader |-> "READER_FOR_SHORT_IMPORT", machine |-> m,
         size_of_data |-> imp_size, ordinal_or_hint |-> ordinal,
         name_type |-> name_type * 4 + import_type,
         strings |-> <<sym, of.import_name>> \o export_name]

\* ------------------------------------------------------ write_import_library
\* A COFFShortExport.
Export(name) ==
    [name |-> name, ext_name |-> NoValue, symbol_name |-> NoValue,
     alias_target |-> NoValue, ordinal |-> 0, noname |-> FALSE, data |-> FALSE,
     private |-> FALSE, constant |-> FALSE]

ImportTypeOf(e) ==
    IF e.constant THEN ImportType_Const
    ELSE IF e.data THEN ImportType_Data ELSE ImportType_Code

\* `symbol_name`: e.symbol_name if present, else e.name
SymbolNameOf(e) == IF e.symbol_name # NoValue THEN e.symbol_name[1] ELSE e.name

\* `name` before the ARM64EC rule: Some(name), or None where replace fails
ResolvedName(e) ==
    IF e.ext_name # NoValue THEN replace(SymbolNameOf(e), e.name, e.ext_name[1])
    ELSE Some(SymbolNameOf(e))

\* Faulty variant of IsWeakAlias: an alias target equal to the name counts.
IsWeakAlias_IgnoresName(e, name) == e.alias_target # NoValue

\* The export becomes two weak externals.
IsWeakAlias(e, name) == e.alias_target # NoValue /\ name # e.alias_target[1]

\* The import is by EXPORTAS.
IsEcCode(import_type, m) == import_type = ImportType_Code /\ is_arm64ec(m)

\* Faulty variant of EcExportName: a name that cannot be mangled is its own
\* export name.
EcExportName_KeepsName(name) == Some(name)

\* `export_name` of an ARM64EC code export
EcExportName(name) ==
    IF get_arm64ec_mangled_function_name(name) # NoValue THEN Some(name)
    ELSE get_arm64ec_demangled_function_name(name)

\* One turn of `for e in exports`: what it pushes, or how it ends the call.
ExportMembers(of, e, m, is_mingw) ==
    LET import_type == ImportTypeOf(e)
        symbol_name == SymbolNameOf(e)
        resolved == ResolvedName(e)
        name == resolved[1]
        name_type == IF e.noname THEN ImportNameType_Ordinal
                     ELSE get_name_type(symbol_name, e.name, m, is_mingw)
        mangled_name == get_arm64ec_mangled_function_name(name)
    IN  IF e.private THEN [end |-> "continue", push |-> <<>>]
        ELSE IF resolved = NoValue THEN [end |-> "err_replace", push |-> <<>>]
        ELSE IF IsWeakAlias(e, name)
        THEN [end |-> "continue",
              push |-> <<create_weak_external(of, e.alias_target[1], name, FALSE, m),
                         create_weak_external(of, e.alias_target[1], name, TRUE, m)>>]
        ELSE IF ~IsEcCode(import_type, m)
        THEN [end |-> "continue",
              push |-> <<create_short_import(of, name, e.ordinal, import_type,
                                             name_type, NoValue, m)>>]
        ELSE IF FirstCharPanics(name) THEN [end |-> "panic", push |-> <<>>]
        ELSE [end |-> "continue",
              push |-> <<create_short_import(
                             of,
                             IF mangled_name # NoValue THEN mangled_name[1] ELSE name,
                             e.ordinal, import_type, ImportNameType_NameExportas,
                             EcExportName(name), m)>>]

NativeMachine(m) == IF m = "ARM64EC" THEN "ARM64" ELSE m

\* The head of write_import_library: the factory and the three fixed members.
ImportStart ==
    /\ pc = "import_start"
    /\ LET of == ObjectFactory_new(import_name, NativeMachine(machine))
       IN  IF of = NoValue
           THEN pc' = "import_err_invalid_input" /\ UNCHANGED <<members, next_export>>
           ELSE /\ members' = <<create_import_descriptor(of[1]),
                                create_null_import_descriptor(of[1]),
                                create_null_thunk(of[1])>>
                /\ next_export' = 1
                /\ pc' = "import_exports"
    /\ UNCHANGED <<import_name, exports, machine, mingw, archive_call>>
    /\ UNCHANGED <<archiveVars, manglerVars>>

\* One turn of the loop over the exports.
ImportExport ==
    /\ pc = "import_exports"
    /\ next_export <= Len(exports)
    /\ LET of == ObjectFactory_new(import_name, NativeMachine(machine))[1]
           turn == ExportMembers(of, exports[next_export], machine, mingw)
       IN  /\ members' = members \o turn.push
           /\ pc' = CASE turn.end = "continue" -> "import_exports"
                      [] turn.end = "err_replace" -> "import_err_replace"
                      [] turn.end = "panic" -> "import_panic"
           /\ next_export' = IF turn.end = "continue" THEN next_export + 1
                             ELSE next_export
    /\ UNCHANGED <<import_name, exports, machine, mingw, archive_call>>
    /\ UNCHANGED <<archiveVars, manglerVars>>

\* The call of write_archive_to_stream that ends write_import_library; what
\* the call does with these arguments is a behaviour of Spec.
ImportCall ==
    /\ pc = "import_exports"
    /\ next_export > Len(exports)
    /\ archive_call' = Some([new_members |-> members,
                             kind |-> IF mingw THEN "Gnu" ELSE "Coff",
                             thin |-> FALSE, is_ec |-> is_arm64ec(machine)])
    /\ pc' = "import_called"
    /\ UNCHANGED <<import_name, exports, machine, mingw, members, next_export>>
    /\ UNCHANGED <<archiveVars, manglerVars>>

NextImport == ImportStart \/ ImportExport \/ ImportCall

\* ------------------------------------------------ write_import_library inputs
Str_f == <<102>>                                                  \* "f"
Str_g == <<103>>                                                  \* "g"
Str_z == <<122>>                                                  \* "z"
Str__f == <<95, 102>>                                             \* "_f"
Str__g == <<95, 103>>                                             \* "_g"
Str_f_at_4 == <<102, 64, 52>>                                     \* "f@4"
Str__f_at_4 == <<95, 102, 64, 52>>                                \* "_f@4"
Str_hash_f == <<35, 102>>                                         \* "#f"
Str_cpp == <<63, 102, 64, 64, 120>>                               \* "?f@@x"
Str_cpp_tagged == <<63, 102, 64, 36, 36, 104, 120>>               \* "?f@$$hx"
Str_cpp_tag_last == <<63, 102, 36, 36, 104>>                      \* "?f$$h"
Str_L_dll == <<76, 46, 100, 108, 108>>                            \* "L.dll"

E_plain == Export(Str_f)
E_data == [Export(Str_f) EXCEPT !.data = TRUE]
E_const == [Export(Str_f) EXCEPT !.data = TRUE, !.constant = TRUE]
E_private == [Export(Str_g) EXCEPT !.private = TRUE, !.ext_name = Some(Str_z),
                                   !.symbol_name = Some(Str_f)]
E_noname == [Export(Str_f) EXCEPT !.noname = TRUE, !.ordinal = 2]
E_renamed == [Export(Str_f) EXCEPT !.ext_name = Some(Str_g)]
E_under == [Export(Str__f) EXCEPT !.ext_name = Some(Str__g),
                                  !.symbol_name = Some(Str_f_at_4)]
E_stdcall == Export(Str__f_at_4)
E_underscore == Export(Str__f)
E_stdcall_sym == [Export(Str__f_at_4) EXCEPT !.symbol_name = Some(Str_f)]
E_fail == [Export(Str_f) EXCEPT !.ext_name = Some(Str_g), !.symbol_name = Some(Str_z)]
E_fail_under == [Export(Str__f) EXCEPT !.ext_name = Some(Str_g),
                                       !.symbol_name = Some(Str_f)]
E_alias == [Export(Str_f) EXCEPT !.alias_target = Some(Str_g)]
E_alias_same == [Export(Str_f) EXCEPT !.alias_target = Some(Str_f)]
E_cpp == Export(Str_cpp)
E_hash == Export(Str_hash_f)
E_cpp_tagged == Export(Str_cpp_tagged)
E_cpp_tag_last == Export(Str_cpp_tag_last)
E_empty == Export(<<>>)

ExportTemplates ==
    {E_plain, E_data, E_const, E_private, E_noname, E_renamed, E_under,
     E_stdcall, E_underscore, E_fail, E_fail_under, E_alias, E_alias_same,
     E_cpp, E_hash, E_cpp_tagged, E_cpp_tag_last, E_empty, E_stdcall_sym}
SmallExportTemplates == {E_plain, E_private, E_alias}
MaxExports == 3

\* Every list of at most two exports, and the lists of up to MaxExports
\* small ones.
ExportLists ==
    {<<>>} \cup {<<a>> : a \in ExportTemplates}
        \cup {<<a, b>> : <<a, b>> \in ExportTemplates \X ExportTemplates}
        \cup UNION {[1..n -> SmallExportTemplates] : n \in 3..MaxExports}

InitImport ==
    /\ pc = "import_start"
    /\ import_name \in {Str_L_dll, <<>>}
    /\ exports \in ExportLists
    /\ machine \in Machines
    /\ mingw \in BOOLEAN
    /\ members = <<>> /\ next_export = 0 /\ archive_call = NoValue
    /\ ArchiveIdle /\ ManglerIdle

SpecImport == InitImport /\ [][NextImport]_vars

\* ------------------------------------------------------------------ C12
\* What a member handed to the assembler is: one of the three fixed
\* objects, a short import, or a weak external with or without "__imp_".
MemberShape(m) ==
    IF m.object # "weak_external" THEN m.object
    ELSE IF StartsWith(m.strings[1], IMP_PREFIX) /\ StartsWith(m.strings[2], IMP_PREFIX)
    THEN "weak_external_imp"
    ELSE "weak_external_plain"

\* The shapes the claim gives for one export.
ClaimedShapesOf(e) ==
    IF e.private THEN <<>>
    ELSE IF e.alias_target # NoValue /\ e.alias_target[1] # ResolvedName(e)[1]
    THEN <<"weak_external_plain", "weak_external_imp">>
    ELSE <<"short_import">>

RECURSIVE ClaimedShapes(_, _)
\* The shapes the claim gives for the first n exports.
ClaimedShapes(es, n) ==
    IF n = 0 THEN <<"import_descriptor", "null_import_descriptor", "null_thunk">>
    ELSE ClaimedShapes(es, n - 1) \o ClaimedShapesOf(es[n])

NonPrivate(alias) ==
    {i \in 1..Len(exports) :
        /\ ~exports[i].private
        /\ alias <=> /\ exports[i].alias_target # NoValue
                     /\ exports[i].alias_target[1] # ResolvedName(exports[i])[1]}

\* C12: when write_import_library calls the assembler, the members it hands
\* over are the import descriptor, the null import descriptor, the null
\* thunk and then, export by export in input order, nothing for a private
\* export, a plain and an "__imp_" weak external for an alias whose target
\* differs from the resolved name, and one short import otherwise; they
\* number 3 + non-alias exports + 2 x alias exports (private ones apart).
C12_MemberSequence ==
    pc = "import_called" =>
        LET handed == archive_call[1].new_members
        IN  /\ [i \in 1..Len(handed) |-> MemberShape(handed[i])]
                   = ClaimedShapes(exports, Len(exports))
            /\ Len(handed) = 3 + Cardinality(NonPrivate(FALSE))
                                 + 2 * Cardinality(NonPrivate(TRUE))

\* A call has handed over the members of a private export, an alias and a
\* plain export.
C12_Witness ==
    /\ pc = "import_called"
    /\ \E i \in 1..Len(exports) : exports[i].private
    /\ \E i \in 1..Len(exports) : exports[i].alias_target # NoValue
    /\ \E i \in 1..Len(members) : members[i].object = "weak_external"
    /\ \E i \in 1..Len(members) : members[i].object = "short_import"

\* ------------------------------------------------------------------ C13
\* Where the members of export i start among the members handed over.
MemberIndexOf(i) == Len(ClaimedShapes(exports, i - 1)) + 1

\* The exports that become a short import.
ShortImportExports ==
    {i \in 1..Len(exports) : ClaimedShapesOf(exports[i]) = <<"short_import">>}

\* C13: in a call that reaches the assembler, the short import of a code
\* export on an ARM64EC machine has name type NameExportas; if the resolved
\* name can be mangled, its symbol is the mangled name and its export name
\* the resolved name; otherwise its symbol is the resolved name and its
\* export name the demangled name, left out when there is none.  Data and
\* Const imports and imports for other machines carry no export name.
C13_Arm64EcExportAs ==
    pc = "import_called" =>
        \A i \in ShortImportExports :
            LET e == exports[i]
                m == archive_call[1].new_members[MemberIndexOf(i)]
                name == ResolvedName(e)[1]
                is_code == ~e.data /\ ~e.constant
                mangled_name == get_arm64ec_mangled_function_name(name)
            IN  IF is_code /\ is_arm64ec(machine)
                THEN /\ m.name_type \div 4 = ImportNameType_NameExportas
                     /\ IF mangled_name # NoValue
                        THEN m.strings = <<mangled_name[1], import_name, name>>
                        ELSE m.strings = <<name, import_name>>
                                 \o get_arm64ec_demangled_function_name(name)
                ELSE m.strings = <<name, import_name>>

\* An ARM64EC call has handed over the import of `f` as symbol `#f` with
\* export name `f`, and the import of a name that can be neither mangled
\* nor demangled, without an export name.
C13_Witness ==
    /\ pc = "import_called" /\ machine = "ARM64EC"
    /\ \E i \in 1..Len(members) :
           /\ members[i].object = "short_import"
           /\ members[i].strings = <<Str_hash_f, Str_L_dll, Str_f>>
    /\ \E i \in 1..Len(members) :
           /\ members[i].object = "short_import"
           /\ members[i].strings = <<Str_cpp_tag_last, Str_L_dll>>
           /\ members[i].name_type \div 4 = ImportNameType_NameExportas

\* ------------------------------------------------------------------ C14
\* The import type and the name type the claim gives for an export.
ClaimedImportType(e) ==
    IF e.constant THEN ImportType_Const
    ELSE IF e.data THEN ImportType_Data ELSE ImportType_Code

ClaimedNameType(e) ==
    LET chosen == IF e.symbol_name # NoValue THEN e.symbol_name[1] ELSE e.name
    IN  IF e.noname THEN ImportNameType_Ordinal
        ELSE IF /\ e.name # <<>> /\ e.name[1] = CH_UNDERSCORE
                /\ \E k \in 1..Len(e.name) : e.name[k] = CH_AT
                /\ ~mingw
        THEN ImportNameType_Name
        ELSE IF chosen # e.name THEN ImportNameType_NameUndecorate
        ELSE IF machine = "I386" /\ chosen # <<>> /\ chosen[1] = CH_UNDERSCORE
        THEN ImportNameType_NameNoprefix
        ELSE ImportNameType_Name

\* C14: the name_type field of a short import that the ARM64EC rule leaves
\* alone is (T << 2) | I: I is Const, else Data, else Code by the export's
\* flags; T is Ordinal for noname, else Name for a '_'...'@' export name
\* outside mingw, else NameUndecorate where the chosen symbol differs from
\* the export's name, else NameNoprefix for a '_' symbol on I386, else Name.
C14_NameTypeField ==
    pc = "import_called" =>
        \A i \in ShortImportExports :
            LET e == exports[i]
                m == archive_call[1].new_members[MemberIndexOf(i)]
            IN  ~(ClaimedImportType(e) = ImportType_Code /\ is_arm64ec(machine)) =>
                    /\ m.name_type \div 4 = ClaimedNameType(e)
                    /\ m.name_type % 4 = ClaimedImportType(e)
                    /\ m.name_type < 65536

\* A call outside mingw has handed over the import of a decorated stdcall
\* export whose symbol differs from its name, and a Const import.
C14_Witness ==
    /\ pc = "import_called" /\ ~mingw /\ exports = <<E_stdcall_sym, E_const>>
    /\ members[4].name_type = ImportNameType_Name * 4 + ImportType_Code
    /\ members[5].name_type = ImportNameType_Name * 4 + ImportType_Const

\* ------------------------------------------------------------------ C15
\* p occurs in s at byte offset k.
OccursAt(s, p, k) == k + Len(p) <= Len(s) /\ SubSeq(s, k + 1, k + Len(p)) = p

\* s with its first occurrence of p replaced by t; None without occurrence.
FirstOccurrenceReplaced(s, p, t) ==
    LET at == {k \in 0..Len(s) : OccursAt(s, p, k)}
        k == CHOOSE k \in at : \A j \in at : k <= j
    IN  IF at = {} THEN NoValue
        ELSE Some(SubSeq(s, 1, k) \o t \o SubSeq(s, k + Len(p) + 1, Len(s)))

\* The resolved name the claim gives for an export with ext_name: the
\* replacement in the chosen symbol name, retried without the leading
\* underscores of name and ext_name; None where the claim gives an error.
ClaimedResolvedName(e) ==
    LET chosen == IF e.symbol_name # NoValue THEN e.symbol_name[1] ELSE e.name
        to == e.ext_name[1]
        both_underscored == /\ e.name # <<>> /\ e.name[1] = CH_UNDERSCORE
                            /\ to # <<>> /\ to[1] = CH_UNDERSCORE
    IN  IF FirstOccurrenceReplaced(chosen, e.name, to) # NoValue
        THEN FirstOccurrenceReplaced(chosen, e.name, to)
        ELSE IF both_underscored
        THEN FirstOccurrenceReplaced(chosen, Tail(e.name), Tail(to))
        ELSE NoValue

\* write_import_library has returned or panicked.
ImportEnded ==
    pc \in {"import_called", "import_err_invalid_input", "import_err_replace",
            "import_panic"}

\* The name the members of export i were made for: the symbol of a short
\* import before mangling, the aliasing name of a weak external.
NameHandedOver(i) ==
    LET m == members[MemberIndexOf(i)]
    IN  IF m.object = "weak_external" THEN m.strings[2]
        ELSE IF Len(m.strings) = 3 THEN m.strings[3]
        ELSE m.strings[1]

Renamed(private_too) ==
    {i \in 1..Len(exports) :
        exports[i].ext_name # NoValue /\ (private_too \/ ~exports[i].private)}

\* C15 as claimed: every export with ext_name, private or not, has a
\* replacement that succeeds, or the call returns an error.
C15_EveryRenamedExport ==
    pc = "import_called" =>
        \A i \in Renamed(TRUE) : ClaimedResolvedName(exports[i]) # NoValue

\* C15: for every export with ext_name that is not private, the resolved
\* name is the chosen symbol name with the first occurrence of the export's
\* name replaced by ext_name, retried without the leading underscore of
\* both; where neither attempt finds the name the call returns the error at
\* that export and never calls the assembler.  A private export is skipped
\* before its name is resolved.
C15_ReplaceOrError ==
    /\ pc = "import_called" =>
           \A i \in Renamed(FALSE) :
               /\ ClaimedResolvedName(exports[i]) # NoValue
               /\ (~is_arm64ec(machine) \/ exports[i].data \/ exports[i].constant) =>
                      NameHandedOver(i) = ClaimedResolvedName(exports[i])[1]
    /\ pc = "import_err_replace" =>
           /\ next_export \in Renamed(FALSE)
           /\ ClaimedResolvedName(exports[next_export]) = NoValue
           /\ \A i \in Renamed(FALSE) :
                  i < next_export => ClaimedResolvedName(exports[i]) # NoValue
    /\ (ImportEnded /\ \E i \in Renamed(FALSE) :
                           ClaimedResolvedName(exports[i]) = NoValue) =>
           /\ pc # "import_called"
           /\ archive_call = NoValue
    /\ (pc = "import_exports" /\ next_export > 1) =>
           LET e == exports[next_export - 1]
           IN  (~e.private /\ e.ext_name # NoValue) =>
                   ClaimedResolvedName(e) # NoValue

\* The call has resolved "_f" -> "_g" in "f@4" by the retry without the
\* underscores and has then returned the error for an export whose name
\* does not occur in its symbol.
C15_Witness ==
    /\ pc = "import_err_replace" /\ exports = <<E_under, E_fail>>
    /\ ~is_arm64ec(machine)
    /\ members[4].strings[1] = <<103, 64, 52>>
    /\ archive_call = NoValue

\* ------------------------------------------------------------- the mangler
MaxNameLen == 4
NameBytes == {CH_QUESTION, CH_AT, CH_DOLLAR, CH_h, CH_HASH, 102}
Names == UNION {[1..n -> NameBytes] : n \in 0..MaxNameLen}

InitMangler ==
    /\ pc = "mangle"
    /\ mangler_name \in Names
    /\ mangled = NoValue /\ demangled = NoValue
    /\ ArchiveIdle /\ ImportIdle

\* get_arm64ec_mangled_function_name(mangler_name)
Mangle ==
    /\ pc = "mangle"
    /\ IF FirstCharPanics(mangler_name)
       THEN pc' = "mangler_panic" /\ UNCHANGED mangled
       ELSE /\ mangled' = get_arm64ec_mangled_function_name(mangler_name)
            /\ pc' = IF mangled' = NoValue THEN "mangle_none" ELSE "demangle"
    /\ UNCHANGED <<mangler_name, demangled, archiveVars, importVars>>

\* get_arm64ec_demangled_function_name of what the mangler returned
Demangle ==
    /\ pc = "demangle"
    /\ demangled' = get_arm64ec_demangled_function_name(mangled[1])
    /\ pc' = IF demangled' = NoValue THEN "demangle_none" ELSE "demangled"
    /\ UNCHANGED <<mangler_name, mangled, archiveVars, importVars>>

NextMangler == Mangle \/ Demangle

SpecMangler == InitMangler /\ [][NextMangler]_vars

\* ------------------------------------------------------------------ C16
\* C16: where mangling a non-empty name gives Some(m) and demangling m gives
\* Some(d), d is the name.
C16_DemangleUndoesMangle ==
    pc = "demangled" => demangled[1] = mangler_name

\* A C++ name with the tag spliced in before its last bytes has been
\* demangled again.
C16_Witness ==
    /\ pc = "demangled" /\ mangler_name[1] = CH_QUESTION
    /\ \E k \in 1..(Len(mangler_name) - 1) :
           mangled[1] = SubSeq(mangler_name, 1, k) \o ARM64EC_TAG
                            \o SubSeq(mangler_name, k + 1, Len(mangler_name))

\* ------------------------------------------------------------------ C17
\* The bytes of s with the tag put in at byte offset k.
Spliced(s, k) == SubSeq(s, 1, k) \o ARM64EC_TAG \o SubSeq(s, k + 1, Len(s))

\* The offsets at which "@@" occurs, and those at which it is not also the
\* start of "@@@".
DoubleAts(s) == {k \in 0..Len(s) : OccursAt(s, <<CH_AT, CH_AT>>, k)}
DoubleAtsNotTriple(s) ==
    {k \in DoubleAts(s) : ~OccursAt(s, <<CH_AT, CH_AT, CH_AT>>, k)}
SingleAts(s) == {k \in 0..Len(s) : OccursAt(s, <<CH_AT>>, k)}

\* None exactly for a '?' name that contains "$$h" and for a '#' name.
ReturnsNoneAsClaimed ==
    LET s == mangler_name
    IN  mangled = NoValue <=>
            \/ s[1] = CH_QUESTION /\ \E k \in 0..Len(s) : OccursAt(s, ARM64EC_TAG, k)
            \/ s[1] = CH_HASH

MangleReturned == pc \in {"mangle_none", "demangle", "demangle_none", "demangled"}

\* C17: None exactly for a '?' name that contains "$$h" and for a '#' name;
\* otherwise '#' is prepended to a name without '?', and "$$h" is spliced
\* into a '?' name two bytes past its first "@@" where that is not also the
\* start of "@@@"; failing that (no "@@", or "@@@" there) after the first
\* '@'; failing that at the end.
C17_InsertionPoint ==
    MangleReturned =>
        LET s == mangler_name
            insert_idx == IF /\ DoubleAts(s) # {}
                             /\ Least(DoubleAts(s)) \in DoubleAtsNotTriple(s)
                          THEN Least(DoubleAts(s)) + 2
                          ELSE IF SingleAts(s) # {} THEN Least(SingleAts(s)) + 1
                          ELSE Len(s)
        IN  /\ ReturnsNoneAsClaimed
            /\ mangled # NoValue =>
                   mangled[1] = IF s[1] = CH_QUESTION THEN Spliced(s, insert_idx)
                                ELSE <<CH_HASH>> \o s

\* "?@@@" has been mangled to "?@$$h@@".
C17_Witness ==
    /\ MangleReturned
    /\ mangler_name = <<CH_QUESTION, CH_AT, CH_AT, CH_AT>>
    /\ mangled = Some(<<CH_QUESTION, CH_AT>> \o ARM64EC_TAG \o <<CH_AT, CH_AT>>)

\* ------------------------------------------------------------------ C18
\* The names member i's object reader supplies.
SuppliedBy(i) == {new_members[i].syms[k] : k \in 1..Len(new_members[i].syms)}

\* The members that write_symbols treats as EC objects.
EcMembers == {i \in 1..Len(new_members) : is_ec /\ new_members[i].is_ec}

\* The write has completed as a COFF archive.
CoffDone == pc = "done" /\ kind = "Coff"

\* The EC map of a call with is_ec: the symbols of the EC members and the
\* import-descriptor symbols of the others, and no symbol-table entry for
\* an EC member.
EcMapInEcMode ==
    /\ DOMAIN sym_map.ec_map
           = UNION {SuppliedBy(i) : i \in EcMembers}
               \cup {n \in UNION {SuppliedBy(i) : i \in 1..Len(new_members) \ EcMembers} :
                         is_import_descriptor(n)}
    /\ \A i \in EcMembers : data[i].symbols = <<>>
    /\ DOMAIN sym_map.map
           = UNION {SuppliedBy(i) : i \in 1..Len(new_members) \ EcMembers}

\* C18 as claimed: a COFF archive written with is_ec false has an empty EC
\* map and no /<ECSYMBOLS> member, whatever the members' symbols are; with
\* is_ec true the EC map holds exactly the symbols of the EC members and the
\* import-descriptor symbols of the other members.
C18_EcMapOnlyInEcMode ==
    CoffDone =>
        IF is_ec THEN EcMapInEcMode
        ELSE /\ DOMAIN sym_map.ec_map = {}
             /\ ~HasChunk("ecsym_header") /\ ~HasChunk("ecsym")

\* ------------------------------------------------------------------ C19
\* The member pass runs with a symbol map and has not been abandoned.
CoffPassUnderWay ==
    /\ is_coff_archive(req_kind) /\ Len(new_members) <= COFF_MAX_MEMBERS
    /\ pc \notin {"start", "panic", "err_too_big", "err_symbols"}

\* The members processed so far that supplied name n to the main map and to
\* the EC map: to the EC map an EC member supplies all its symbols, another
\* member its import-descriptor symbols.
MainSuppliers(n) == {i \in 1..index : i \notin EcMembers /\ n \in SuppliedBy(i)}
EcSuppliers(n) ==
    {i \in 1..index :
        /\ n \in SuppliedBy(i)
        /\ i \in EcMembers \/ is_import_descriptor(n)}

RECURSIVE NulTerminated(_, _, _)
\* The first n NUL-terminated strings of bytes, read from byte offset from.
NulTerminated(bytes, from, n) ==
    IF n = 0 THEN <<>>
    ELSE LET end == Least({k \in (from + 1)..Len(bytes) : bytes[k] = 0})
         IN  <<SubSeq(bytes, from + 1, end - 1)>> \o NulTerminated(bytes, end, n - 1)

\* The keys as they stand in the symbol map member and in /<ECSYMBOLS>.
EmittedMapKeys ==
    LET b == out[ChunkOf("symmap", 0)].bytes
        n == LeVal(SubSeq(b, 4 + 4 * Len(data) + 1, 4 + 4 * Len(data) + 4))
    IN  NulTerminated(b, 4 + 4 * Len(data) + 4 + 2 * n, n)
EmittedEcKeys ==
    LET b == out[ChunkOf("ecsym", 0)].bytes
        n == LeVal(SubSeq(b, 1, 4))
    IN  NulTerminated(b, 4 + 2 * n, n)

StrictlyIncreasing(keys) ==
    \A k \in 1..(Len(keys) - 1) : LexLess(keys[k], keys[k + 1])

\* C19 as claimed: throughout the member pass of a COFF archive the index
\* stored for a key of the main map or of the EC map is the 1-based index
\* of the first member that supplied the name to that map, and both maps
\* are written with their keys in strictly increasing byte order.
C19_FirstSupplierKeepsKey ==
    CoffPassUnderWay =>
        /\ \A n \in DOMAIN sym_map.map : sym_map.map[n] = Least(MainSuppliers(n))
        /\ \A n \in DOMAIN sym_map.ec_map : sym_map.ec_map[n] = Least(EcSuppliers(n))
        /\ HasChunk("symmap") =>
               /\ StrictlyIncreasing(EmittedMapKeys)
               /\ {EmittedMapKeys[k] : k \in 1..Len(EmittedMapKeys)} = DOMAIN sym_map.map
        /\ HasChunk("ecsym") =>
               /\ StrictlyIncreasing(EmittedEcKeys)
               /\ {EmittedEcKeys[k] : k \in 1..Len(EmittedEcKeys)} = DOMAIN sym_map.ec_map

\* ------------------------------------------------------------------ C20
\* The member pass has run to its end.
MemberPassDone ==
    /\ Len(data) = Len(new_members)
    /\ pc \notin {"start", "member_pass", "panic", "err_too_big", "err_symbols"}

\* The NUL-terminated name at byte offset from of the symbol-name stream.
NameAt(from) ==
    SubSeq(sym_names, from + 1,
           Least({k \in (from + 1)..Len(sym_names) : sym_names[k] = 0}) - 1)

\* The entries of the primary symbol table in table order: the name an
\* entry's offset into the stream names, and the member the entry is of.
SymbolEntries ==
    Flatten([i \in 1..Len(data) |->
                [j \in 1..Len(data[i].symbols) |->
                    [name |-> NameAt(data[i].symbols[j]), owner |-> i]]])

\* The symbols as the object readers supply them, member by member.
SymbolOccurrences ==
    Flatten([i \in 1..Len(new_members) |->
                [j \in 1..Len(new_members[i].syms) |->
                    [name |-> new_members[i].syms[j], owner |-> i]]])

EntriesNamed(n) == {k \in 1..Len(SymbolEntries) : SymbolEntries[k].name = n}
OccurrencesNamed(n) == {k \in 1..Len(SymbolOccurrences) : SymbolOccurrences[k].name = n}
Suppliers(n) == {i \in 1..Len(new_members) : n \in SuppliedBy(i)}
AllSupplied == UNION {SuppliedBy(i) : i \in 1..Len(new_members)}

RECURSIVE SumLen(_, _)
\* The bytes the names of the first n entries take in the stream.
SumLen(entries, n) ==
    IF n = 0 THEN 0 ELSE SumLen(entries, n - 1) + Len(entries[n].name) + 1

\* The word that heads the written symbol table counts its entries (in the
\* BSD-like variants: their bytes), and the table holds that many.
CountWordMatches ==
    LET b == out[ChunkOf("symtab", 0)].bytes
        os == IF is_64bit_kind(kind) THEN 8 ELSE 4
        n == Len(SymbolEntries)
        words == IF is_bsd_like(kind) THEN 2 + 2 * n ELSE 1 + n
    IN  /\ TableWord(b, kind, 1) = IF is_bsd_like(kind) THEN 2 * n * os ELSE n
        /\ Len(b) - words * os - Len(sym_names) \in 0..7

\* Without a symbol map every occurrence has its entry, in order.
EveryOccurrenceHasEntry ==
    /\ SymbolEntries = SymbolOccurrences
    /\ (pc = "done" /\ HasChunk("symtab")) => CountWordMatches

\* C20 as claimed: in a COFF archive every supplied name has exactly one
\* entry in the primary symbol table, of the first member that supplied it;
\* in the other variants every occurrence has its own entry and the count
\* word is the number of entries.
C20_OneEntryOfFirstSupplier ==
    MemberPassDone =>
        IF is_coff_archive(req_kind) /\ Len(new_members) <= COFF_MAX_MEMBERS
        THEN \A n \in AllSupplied :
                 Cardinality(OccurrencesNamed(n)) > 1 =>
                     /\ Cardinality(EntriesNamed(n)) = 1
                     /\ \A k \in EntriesNamed(n) :
                            SymbolEntries[k].owner = Least(Suppliers(n))
        ELSE EveryOccurrenceHasEntry

\* C20: where the member pass runs as COFF, a name has exactly one entry in
\* the primary symbol table and stands once in the symbol-name stream if a
\* member that is not treated as an EC object supplies it, and the entry is
\* of the first such member; a name only EC objects supply has none.  In
\* the other variants every occurrence has its own entry, of the member
\* that supplied it, and the count word is the number of entries.
C20_OneEntryOfFirstMainSupplier ==
    MemberPassDone =>
        IF is_coff_archive(req_kind) /\ Len(new_members) <= COFF_MAX_MEMBERS
        THEN /\ \A n \in AllSupplied :
                    IF MainSuppliers(n) = {} THEN EntriesNamed(n) = {}
                    ELSE /\ Cardinality(EntriesNamed(n)) = 1
                         /\ \A k \in EntriesNamed(n) :
                                SymbolEntries[k].owner = Least(MainSuppliers(n))
             /\ \A k \in 1..Len(SymbolEntries) : SymbolEntries[k].name \in AllSupplied
             /\ Len(sym_names) = SumLen(SymbolEntries, Len(SymbolEntries))
             /\ (pc = "done" /\ HasChunk("symtab")) => CountWordMatches
        ELSE EveryOccurrenceHasEntry

\* A COFF archive of two members that both supply `f` is complete, with one
\* entry for `f`, of the first member.
C20_Witness ==
    /\ pc = "done" /\ kind = "Coff" /\ new_members = <<M_a1, M_slash>>
    /\ SymbolEntries = <<[name |-> Sym_f, owner |-> 1], [name |-> Sym_g, owner |-> 1],
                         [name |-> NULL_IMPORT_DESCRIPTOR_SYMBOL_NAME, owner |-> 2]>>

\* ------------------------------------------------------------------ C21
\* The sections of a non-AIX archive in the order of the statements that
\* write them (archive_writer.rs:911-964).
SectionOrder ==
    <<"magic", "symtab_header", "symtab", "symmap_header", "symmap",
      "strtab_header", "strtab", "strtab_padding", "ecsym_header", "ecsym",
      "member_header", "member_data", "member_padding">>

\* The same with the /<ECSYMBOLS> member before the `//` member.
SectionOrder_EcBeforeNames ==
    <<"magic", "symtab_header", "symtab", "symmap_header", "symmap",
      "ecsym_header", "ecsym", "strtab_header", "strtab", "strtab_padding",
      "member_header", "member_data", "member_padding">>

\* The place of a chunk in an order of sections: the members' chunks come
\* member by member.
PlaceIn(order, c) ==
    LET r == CHOOSE k \in 1..Len(order) : order[k] = c.sec
    IN  IF c.mem = 0 THEN r ELSE Len(order) + 3 * c.mem + r

\* The chunks written so far follow the order, none of them twice.
WrittenInOrder(order) ==
    \A k \in 1..(Len(out) - 1) : PlaceIn(order, out[k]) < PlaceIn(order, out[k + 1])

\* The sections of a complete archive: the magic; the symbol map exactly in
\* a COFF archive; the `//` member exactly when the string table is not
\* empty; /<ECSYMBOLS> exactly when the EC map is not empty; every member's
\* header, data and padding.
AllSectionsWritten ==
    /\ out[1].sec = "magic"
    /\ HasChunk("symtab_header") <=> HasChunk("symtab")
    /\ HasChunk("symmap") <=> is_coff_archive(kind)
    /\ HasChunk("symmap") => HasChunk("symtab")
    /\ HasChunk("strtab") <=> Len(string_table) # 0
    /\ HasChunk("ecsym") <=> DOMAIN sym_map.ec_map # {}
    /\ \A i \in 1..Len(new_members) :
           /\ ChunkOf("member_header", i) # 0
           /\ ChunkOf("member_data", i) = ChunkOf("member_header", i) + 1
           /\ ChunkOf("member_padding", i) = ChunkOf("member_header", i) + 2
    /\ \A k \in 1..Len(out) : out[k].mem \in 0..Len(new_members)

NonAixRun == ~is_aix_big_archive(req_kind) /\ pc # "start"

\* C21 as claimed: the /<ECSYMBOLS> member is written after the symbol map
\* and before the `//` member.
C21_EcSymbolsBeforeNames ==
    NonAixRun =>
        /\ WrittenInOrder(SectionOrder_EcBeforeNames)
        /\ pc = "done" => AllSectionsWritten

\* C21: the sections of a non-AIX archive are written in this order, each
\* at most once and one right after the other: magic; primary symbol table;
\* in a COFF archive the symbol map; the `//` member when the string table
\* is not empty; the /<ECSYMBOLS> member when the EC map is not empty; each
\* member's header, data and padding in input order.
C21_SectionsInOrder ==
    NonAixRun =>
        /\ WrittenInOrder(SectionOrder)
        /\ pc = "done" => AllSectionsWritten

\* A complete COFF archive with a `//` member followed by /<ECSYMBOLS>.
C21_Witness ==
    /\ pc = "done" /\ kind = "Coff" /\ is_ec /\ new_members = <<M_ecd, M_slash>>
    /\ ChunkOf("ecsym_header", 0) = ChunkOf("strtab_padding", 0) + 1
    /\ ChunkOf("member_header", 1) = ChunkOf("ecsym", 0) + 1
    /\ ChunkOf("strtab_header", 0) = ChunkOf("symmap", 0) + 1

\* ------------------------------------------------------------------ C22
\* The variant in effect when the switch is considered: the requested one,
\* or GNU for a COFF request of too many members.
KindInEffect ==
    IF is_coff_archive(req_kind) /\ Len(new_members) > COFF_MAX_MEMBERS
    THEN "Gnu" ELSE req_kind

\* The switch has been considered.
Sym64Decided ==
    pc \notin {"start", "member_pass", "layout", "sym64", "err_too_big"}
        /\ Len(data) = Len(new_members)

\* The size of everything before the first member, counted with four-byte
\* offsets in the variant in effect.
HeadersSize32 ==
    LET t == compute_string_table(string_table)
    IN  compute_headers_size(
            KindInEffect, Len(data),
            IF Len(string_table) # 0
            THEN Len(t.header) + Len(t.data) + Len(t.padding) ELSE 0,
            CountSyms(data, Len(data)), Len(sym_names),
            is_coff_archive(KindInEffect), sym_map)

\* The offset of the last member's header from the first member.
LastHeaderFromFirst ==
    IF Len(data) = 0 THEN 0 ELSE SumLens(data, Len(data) - 1)

Promoted == kind # KindInEffect

\* The offset words written so far to a table of four-byte offsets hold the
\* offsets of the members' headers, all below 2^32.
OffsetWordsExact ==
    /\ HasChunk("symtab") =>
           \A n \in 1..Len(SymbolOwners) :
               LET v == HeadersSize32 + SumLens(data, SymbolOwners[n] - 1)
               IN  v <= U32_MAX /\ SymtabMemberOffset(n) = v
    /\ HasChunk("symmap") =>
           LET words == Len(out[ChunkOf("symmap", 0)].bytes) \div 4
               held == IF words - 1 < Len(data) THEN words - 1 ELSE Len(data)
           IN  /\ held = Len(data) \/ pc = "panic"
               /\ \A i \in 1..held :
                      LET v == HeadersSize32 + SumLens(data, i - 1)
                      IN  v <= U32_MAX /\ SymmapMemberOffset(i) = v
    \* print_n_bits has not failed
    /\ Len(out) > 0 => ~(pc = "panic" /\ out[Len(out)].sec = "symtab")

\* C22: the switch to a 64-bit symbol table is made exactly when the
\* variant in effect is not 64-bit and the headers size counted with
\* four-byte offsets plus the offset of the last member's header from the
\* first member is at least 2^32; the variant does not change once a byte
\* is written; and without the switch every offset word written in four
\* bytes holds its value, which is below 2^32.
C22_SwitchAtThreshold ==
    /\ Sym64Decided =>
           /\ Promoted <=>
                  /\ ~is_64bit_kind(KindInEffect)
                  /\ HeadersSize32 + LastHeaderFromFirst >= SYM64_THRESHOLD
           /\ Promoted => kind = (IF KindInEffect = "Darwin" THEN "Darwin64"
                                  ELSE "Gnu64")
           /\ (~Promoted /\ ~is_64bit_kind(kind)) => OffsetWordsExact
    /\ ~Sym64Decided => out = <<>>

\* A GNU archive whose second member's header lies beyond the limit has
\* been written with the 64-bit symbol table.
C22_Witness ==
    /\ pc = "done" /\ req_kind = "Gnu" /\ kind = "Gnu64"
    /\ new_members = <<M_big, M_a1>>
    /\ HeadersSize32 + LastHeaderFromFirst >= SYM64_THRESHOLD
    /\ HeadersSize32 < SYM64_THRESHOLD
    /\ out[2].bytes = PadRight(<<47, 83, 89, 77, 54, 52, 47>>, 16)
                          \o print_rest_of_member_header(0, 0, 0, 0, 28)

\* ------------------------------------------------------------------ C23
\* The call has ended for no reason other than the size of the archive:
\* every member was accepted by the member pass and the arguments pass the
\* assertion on thin mode.
EndedAfterMemberPass ==
    /\ Terminated /\ Sym64Decided
    /\ ~(thin /\ is_bsd_like(req_kind))

\* C23: a write in GNU, BSD, Darwin or COFF whose last member's header
\* starts before offset 2^32 completes without the switch to a 64-bit
\* symbol table and without error or panic, wherever the last member ends.
C23_CompleteBelowLimit ==
    (/\ EndedAfterMemberPass
     /\ req_kind \in {"Gnu", "Bsd", "Darwin", "Coff"}
     /\ HeadersSize32 + LastHeaderFromFirst < SYM64_THRESHOLD) =>
        /\ pc = "done"
        /\ kind = KindInEffect
        /\ written = Len(new_members)

\* ------------------------------------------------------------------ C24
\* The members written so far whose name occurs more than once in the input.
DuplicatesWritten ==
    {i \in MembersWritten : Occurrences(new_members[i].name) > 1}

\* C24: in a Darwin or Darwin64 archive every member whose name occurs more
\* than once is written with a non-zero mtime, two members of one name are
\* written with different mtimes, and the mtime written is fixed by the
\* member's place among the members of its name, not by any input mtime.
C24_UniqueTimestamps ==
    is_darwin(kind) =>
        /\ \A i \in DuplicatesWritten : EmittedMtime(i) # 0
        /\ \A i, j \in DuplicatesWritten :
               (i # j /\ new_members[i].name = new_members[j].name)
                   => EmittedMtime(i) # EmittedMtime(j)
        /\ \A i \in DuplicatesWritten :
               EmittedMtime(i) =
                   Cardinality({j \in 1..i : new_members[j].name = new_members[i].name})

\* Two members of one name and one input mtime have been written to a
\* Darwin archive with the mtimes 1 and 2.
C24_Witness ==
    /\ pc = "done" /\ kind = "Darwin" /\ new_members = <<M_a1, M_a1>>
    /\ EmittedMtime(1) = 1 /\ EmittedMtime(2) = 2
    /\ new_members[1].mtime = new_members[2].mtime

\* ------------------------------------------------------------------ C25
\* The output offset of the first payload byte of member i: the byte after
\* its header, which in the BSD-like variants ends with the inline name and
\* its NUL pad.
PayloadStart(i) == ChunkStart(ChunkOf("member_data", i))

\* The same for the symbol table.
SymtabPayloadStart == ChunkStart(ChunkOf("symtab", 0))

\* Every header written is as long as its fields are wide: 60 bytes and the
\* inline name with its pad.
HeadersOfFixedWidth ==
    \A k \in 1..Len(out) :
        out[k].sec \in {"member_header", "symtab_header"} =>
            /\ out[k].len = 60 + ParseDec(SubSeq(out[k].bytes, 4, 16))
            /\ out[k].bytes[59] = 96 /\ out[k].bytes[60] = 10

\* C25: in an archive written in BSD, Darwin or Darwin64 the payload of
\* every member, and that of the symbol table, starts at an output offset
\* that is a multiple of 8.
C25_PayloadsEightAligned ==
    (is_bsd_like(kind) /\ pc \in {"members", "done"}) =>
        /\ HasChunk("symtab") => SymtabPayloadStart % 8 = 0
        /\ \A i \in MembersWritten : PayloadStart(i) % 8 = 0

\* ------------------------------------------------------------------ C27
\* The next_offset and prev_offset fields (bytes 20..39 and 40..59) of an
\* AIX big archive member header.
NextOffsetField(header) == ParseDec(SubSeq(header, 21, 40))
PrevOffsetField(header) == ParseDec(SubSeq(header, 41, 60))

\* A complete AIX big archive: the output of a write that is not thin.
AixArchiveDone == pc = "done" /\ is_aix_big_archive(kind) /\ ~thin

\* The output offset at which the member table's header starts.
MemberTableStart == ChunkStart(ChunkOf("member_table_header", 0))

DeclaredSize(header) ==
    IF is_aix_big_archive(kind) THEN ParseDec(SubSeq(header, 1, 20))
    ELSE ParseDec(SubSeq(header, 49, 58))

\* The bytes of inline name and pad with which a BSD-like header ends.
InlineNameLen(header) == IF is_bsd_like(kind) THEN Len(header) - 60 ELSE 0

\* The symbol tables a complete archive has: the section of the body, and
\* the symbol count and the symbol names the table is written for.
SymbolTablesWritten ==
    IF is_aix_big_archive(kind)
    THEN (IF HasChunk("symtab32")
          THEN {[sec |-> "symtab32", n |-> CountSyms32(data, Len(data)),
                 names |-> sym_names32]} ELSE {})
         \cup (IF HasChunk("symtab64")
               THEN {[sec |-> "symtab64",
                      n |-> CountSyms(data, Len(data))
                                - CountSyms32(data, Len(data)),
                      names |-> sym_names64]} ELSE {})
    ELSE IF HasChunk("symtab")
    THEN {[sec |-> "symtab", n |-> CountSyms(data, Len(data)),
           names |-> sym_names]}
    ELSE {}

\* The size the claim's formula gives a symbol table of n symbols.
ClaimedSymtabSize(n, names_len) ==
    LET os == IF is_64bit_kind(kind) THEN 8 ELSE 4
        unpadded == IF is_bsd_like(kind) THEN os + 2 * n * os + os + names_len
                    ELSE os + n * os + names_len
    IN  IF is_aix_big_archive(kind) THEN unpadded
        ELSE IF is_bsd_like(kind) THEN unpadded + ((8 - (unpadded % 8)) % 8)
        ELSE unpadded + (unpadded % 2)

\* The first word of a symbol table of n symbols as the claim gives it.
ClaimedFirstWord(n) ==
    LET os == IF is_64bit_kind(kind) THEN 8 ELSE 4
    IN  IF is_bsd_like(kind) THEN LeBytes(2 * n * os, os) ELSE BeBytes(n, os)

\* The body of table t has the claimed length and first word.
SymtabBodyAsClaimed(t) ==
    LET os == IF is_64bit_kind(kind) THEN 8 ELSE 4
        body == out[ChunkOf(t.sec, 0)].bytes
    IN  /\ Len(body) = ClaimedSymtabSize(t.n, Len(t.names))
        /\ SubSeq(body, 1, os) = ClaimedFirstWord(t.n)
        /\ out[ChunkOf(t.sec, 0) - 1].sec \in
               {"symtab_header", "symtab32_header", "symtab64_header"}

\* C26 as claimed: the size field of every symbol table's header is the
\* number of body bytes written after the header and is what the formula
\* gives.
C26_SizeFieldIsBodyLength ==
    pc = "done" =>
        \A t \in SymbolTablesWritten :
            /\ SymtabBodyAsClaimed(t)
            /\ DeclaredSize(out[ChunkOf(t.sec, 0) - 1].bytes) =
                   ClaimedSymtabSize(t.n, Len(t.names))

\* C26: the body of every symbol table has the length the formula gives and
\* begins with the claimed first word, and the size field of its header is
\* that length, in the BSD-like variants plus the length of the inline name
\* and its pad, which follow the header.
C26_SizeFieldCountsInlineName ==
    pc = "done" =>
        \A t \in SymbolTablesWritten :
            /\ SymtabBodyAsClaimed(t)
            /\ DeclaredSize(out[ChunkOf(t.sec, 0) - 1].bytes) =
                   ClaimedSymtabSize(t.n, Len(t.names))
                       + InlineNameLen(out[ChunkOf(t.sec, 0) - 1].bytes)
            /\ is_bsd_like(kind) =>
                   InlineNameLen(out[ChunkOf(t.sec, 0) - 1].bytes) = 12

\* A complete Darwin archive with two symbols: the table's body is 32 bytes
\* long, begins with the word 16 in little-endian order, and its header
\* declares 44 bytes.
C26_Witness ==
    /\ pc = "done" /\ kind = "Darwin" /\ new_members = <<M_a1>>
    /\ out[3].sec = "symtab" /\ out[3].len = 32
    /\ SubSeq(out[3].bytes, 1, 4) = <<16, 0, 0, 0>>
    /\ DeclaredSize(out[2].bytes) = 44

\* ------------------------------------------------------------------ C28
\* The alignment member i's own object reader reports for its payload.
OwnAlignment(i) == get_xcoff_member_alignment(new_members[i], new_members[i])

\* C28: in an AIX big archive every member's payload starts at an output
\* offset that is a multiple of the alignment the member's own object
\* reader reports for it.
C28_PayloadsAligned ==
    AixArchiveDone =>
        \A i \in 1..Len(new_members) : PayloadStart(i) % OwnAlignment(i) = 0

\* ------------------------------------------------------------------ C29
\* The k-th (from 1) of the six 20-byte offset fields of the fixed header.
FixedHeaderField(k) ==
    ParseDec(SubSeq(out[ChunkOf("fixed_header", 0)].bytes, 20 * k - 19, 20 * k))

\* The members that are (is64 TRUE) or are not 64-bit object files, in
\* input order, one occurrence for each of their symbols.
OwnersOf(is64) ==
    Flatten([i \in 1..Len(new_members) |->
                IF new_members[i].is64 = is64
                THEN [j \in 1..Len(new_members[i].syms) |-> i] ELSE <<>>])

\* The names of their symbols, each with its NUL.
NamesOf(is64) ==
    Flatten([i \in 1..Len(new_members) |->
                IF new_members[i].is64 = is64
                THEN Flatten([j \in 1..Len(new_members[i].syms) |->
                                 new_members[i].syms[j] \o <<0>>])
                ELSE <<>>])

\* The global symbol table of section sec lists exactly these symbols: the
\* count, for each symbol the offset of its member's header, the names.
GlobalSymtabLists(sec, is64) ==
    LET owners == OwnersOf(is64)
        body == out[ChunkOf(sec, 0)].bytes
    IN  body = BeBytes(Len(owners), 8)
                   \o Flatten([n \in 1..Len(owners) |->
                                  BeBytes(MemberHeaderStart(owners[n]), 8)])
                   \o NamesOf(is64)

\* The value the claim gives the field of a global symbol table.
GlobalSymtabField(sec, hsec, is64) ==
    IF OwnersOf(is64) = <<>> THEN 0 ELSE ChunkStart(ChunkOf(hsec, 0))

\* C29: in an AIX big archive the fields of the fixed header are the
\* output offsets of the member table's header, of the global symbol table
\* of the 32-bit members and of that of the 64-bit members (0 where no such
\* member has a symbol), of the first and of the last member's header, and
\* 0 for the free list; each global symbol table lists exactly the symbols
\* of its members; for an empty member list all six fields are 0.
C29_FixedHeaderOffsets ==
    AixArchiveDone =>
        IF Len(new_members) = 0
        THEN \A k \in 1..6 : FixedHeaderField(k) = 0
        ELSE /\ FixedHeaderField(1) = MemberTableStart
             /\ FixedHeaderField(2) =
                    GlobalSymtabField("symtab32", "symtab32_header", FALSE)
             /\ FixedHeaderField(3) =
                    GlobalSymtabField("symtab64", "symtab64_header", TRUE)
             /\ HasChunk("symtab32") <=> OwnersOf(FALSE) # <<>>
             /\ HasChunk("symtab64") <=> OwnersOf(TRUE) # <<>>
             /\ HasChunk("symtab32") => GlobalSymtabLists("symtab32", FALSE)
             /\ HasChunk("symtab64") => GlobalSymtabLists("symtab64", TRUE)
             /\ FixedHeaderField(4) = MemberHeaderStart(1)
             /\ FixedHeaderField(5) = MemberHeaderStart(Len(new_members))
             /\ FixedHeaderField(6) = 0
             /\ out[ChunkOf("fixed_header", 0)].len = 120

\* A complete AIX big archive with both global symbol tables.
C29_Witness ==
    /\ AixArchiveDone /\ new_members = <<M_a1, M_a2>>
    /\ HasChunk("symtab32") /\ HasChunk("symtab64")
    /\ FixedHeaderField(3) > FixedHeaderField(2)
    /\ FixedHeaderField(2) > FixedHeaderField(1)
    /\ FixedHeaderField(5) > FixedHeaderField(4)

\* ------------------------------------------------------------------ C30
\* write_archive_to_stream has returned the error of a member that is too
\* big or of an object reader's get_symbols.
ReturnedError == pc \in {"err_too_big", "err_symbols"}

\* C30 as stated: when the call ends with the error of a too big member or
\* of get_symbols, not a single byte has been written, not even the magic.
C30_NothingWrittenOnFailure == ReturnedError => out = <<>>

\* The error was returned by compute_member_data.
FailedInMemberPass == Len(data) < Len(new_members)

\* C30: the error of a too big member, and the error of get_symbols for a
\* member's buffer, are returned by the member pass with nothing written;
\* any other error of get_symbols comes from the second call of the AIX
\* branch, made in thin mode on the empty slice when the archive has
\* symbols, and is returned with the magic in the sink and nothing else.
C30_MemberPassErrorsWriteNothing ==
    /\ pc = "err_too_big" => (FailedInMemberPass /\ out = <<>>)
    /\ pc = "err_symbols" =>
           IF FailedInMemberPass
           THEN out = <<>>
           ELSE /\ is_aix_big_archive(kind) /\ thin /\ num_syms > 0
                /\ Len(out) = 1 /\ out[1].sec = "magic"

\* The error of get_symbols in the member pass leaves the sink empty.
C30_FirstPassErrorWitness ==
    /\ pc = "err_symbols"
    /\ new_members = <<M_a1, M_err>>
    /\ Len(data) = 1
    /\ out = <<>>

====
